---- MODULE Spec2Model ----
(***************************************************************************)
(* The structural pattern-dictionary codec of                              *)
(* cleanup/test_artifacts/multi_language_compression_test.py               *)
(* (MultiLanguageCompressionTester): create_test_ast, the signature        *)
(* generators, compress_value, simulate_compression (Phases 1-4) and       *)
(* simulate_decompression.                                                 *)
(*                                                                         *)
(* A Python str is a sequence of one-character strings, so that slicing,   *)
(* substring tests, lower(), strip(), replace() and string concatenation   *)
(* are computed as Python computes them.  A Python dict is a sequence of   *)
(* entries in insertion order (each entry carries its key), a Python list  *)
(* a sequence.                                                             *)
(*                                                                         *)
(* Three more programs of the repository share the module, each with its   *)
(* own variables and its own specification while the others stay idle:     *)
(* the reference-wrapping codec of tests/real_compression_integration_     *)
(* test.py (SpecIntegration), the hash-chained ledger of                   *)
(* src/mythgraph_ledger.py (SpecLedgerChain, SpecLedger) and the phase     *)
(* runner of run_comprehensive_compression_tests.py (SpecRunner).          *)
(***************************************************************************)
EXTENDS Integers, Sequences, FiniteSets, TLC

VARIABLES
  content,            \* the text of the file under test (a str)
  language,           \* the language tag the file is tested under
  nodes,              \* ast_nodes: the list simulate_compression is called on
  pc,                 \* position of test_compression_on_file / simulate_compression
  run,                \* which call of simulate_compression this is (1 or 2)
  patterns,           \* Phase 1: signature -> {count, template}
  semantic_patterns,  \* Phase 1: semantic_key -> {count, template}
  pattern_dict,       \* Phase 2: signature -> {id, template, count}
  semantic_dict,      \* Phase 2: semantic_key -> {id, template, count, semantic_type}
  compressed_data,    \* Phase 3: the record list
  doc,                \* the dict simulate_compression returned
  compressed_size,    \* what get_compressed_size returned for doc
  reconstructed,      \* the list simulate_decompression returned
  first_doc,          \* the dict the first call returned, kept by the caller
  error,              \* the exception that ended the call, "none" without one
  tampered,           \* whether the caller edited doc or nodes by hand
  ast_nodes,          \* run_real_compression: what create_realistic_ast returned
  compressed_result,  \* run_real_compression: what apply_fixed_compression returned
  reconstructed_nodes, \* run_real_compression: what apply_fixed_decompression returned
  entries,            \* MythGraphLedger.entries
  ledger_hash,        \* MythGraphLedger.ledger_hash
  public_key,         \* MythGraphLedger.public_key
  private_key,        \* MythGraphLedger.private_key
  clock,              \* datetime.utcnow(), in hours
  verification_results, \* what the last verify_ledger_integrity returned
  modified,           \* indices of the entries whose data the caller changed afterwards
  calls,              \* the operations called on the ledger so far
  last_call,          \* the operation called last
  skip_download,      \* run_all_phases: the argument
  phase_index,        \* run_all_phases: how many phases the loop has gone through
  overall_results,    \* run_all_phases: the dict it builds and returns
  total_execution_time, \* run_all_phases: the local sum
  phase_pc,           \* run_all_phases: where the call is
  executed            \* the phases run_test_phase was called for, in call order

\* the locals of RealCompressionIntegrationTest.run_real_compression
integration_vars == << ast_nodes, compressed_result, reconstructed_nodes >>

\* the fields of a MythGraphLedger and what its caller holds
ledger_vars == << entries, ledger_hash, public_key, private_key, clock,
                 verification_results, modified, calls, last_call >>

\* the fields of a ComprehensiveCompressionTestRunner
runner_vars == << skip_download, phase_index, overall_results, total_execution_time,
                 phase_pc, executed >>

\* the locals of test_compression_on_file and simulate_compression
codec_vars == << compressed_size, content, language, nodes, pc, run, patterns,
                semantic_patterns, pattern_dict, semantic_dict, compressed_data,
                doc, reconstructed, first_doc, error, tampered >>

vars == << compressed_size, content, language, nodes, pc, run, patterns, semantic_patterns,
           pattern_dict, semantic_dict, compressed_data, doc, reconstructed,
           first_doc, error, tampered,
           integration_vars, ledger_vars, runner_vars >>

----------------------------------------------------------------------------
(* Python str operations                                                   *)

LowerLetters == <<"a", "b", "c", "d", "e", "f", "g", "h", "i", "j", "k", "l", "m", "n", "o", "p", "q", "r", "s", "t", "u", "v", "w", "x", "y", "z">>

UpperLetters == <<"A", "B", "C", "D", "E", "F", "G", "H", "I", "J", "K", "L", "M", "N", "O", "P", "Q", "R", "S", "T", "U", "V", "W", "X", "Y", "Z">>

Whitespace == {" ", "\t", "\r", "\n"}

LetterIndex(letters, c) == CHOOSE i \in 1..Len(letters) : letters[i] = c

IsLower(c) == \E i \in 1..Len(LowerLetters) : LowerLetters[i] = c

IsUpper(c) == \E i \in 1..Len(UpperLetters) : UpperLetters[i] = c

lower_char(c) == IF IsUpper(c) THEN LowerLetters[LetterIndex(UpperLetters, c)] ELSE c

upper_char(c) == IF IsLower(c) THEN UpperLetters[LetterIndex(LowerLetters, c)] ELSE c

\* s.lower()
lower(s) == [i \in 1..Len(s) |-> lower_char(s[i])]

\* s.upper()
upper(s) == [i \in 1..Len(s) |-> upper_char(s[i])]

\* s.title(): a letter that follows a letter is lower-cased, any other letter
\* is upper-cased
title(s) ==
  [i \in 1..Len(s) |->
     IF i > 1 /\ (IsLower(s[i-1]) \/ IsUpper(s[i-1]))
     THEN lower_char(s[i]) ELSE upper_char(s[i])]

\* s[a:] with a counted from 0
DropFirst(s, a) == SubSeq(s, a + 1, Len(s))

\* s.startswith(p)
startswith(s, p) == Len(p) <= Len(s) /\ SubSeq(s, 1, Len(p)) = p

\* p in s
contains(s, p) ==
  \E i \in 1..(Len(s) - Len(p) + 1) : SubSeq(s, i, i + Len(p) - 1) = p

\* any(keyword in value for keyword in keywords)
any_keyword_in(value, keywords) ==
  \E k \in 1..Len(keywords) : contains(value, keywords[k])

\* s.strip()
strip(s) ==
  LET keep == {i \in 1..Len(s) : s[i] \notin Whitespace}
  IN  IF keep = {} THEN << >>
      ELSE LET first == CHOOSE i \in keep : \A j \in keep : i <= j
               last  == CHOOSE i \in keep : \A j \in keep : j <= i
           IN  SubSeq(s, first, last)

\* s.replace(old, new): every non-overlapping occurrence, left to right
RECURSIVE replace(_, _, _)
replace(s, old, new) ==
  IF Len(s) < Len(old) THEN s
  ELSE IF SubSeq(s, 1, Len(old)) = old
       THEN new \o replace(DropFirst(s, Len(old)), old, new)
       ELSE << s[1] >> \o replace(Tail(s), old, new)

\* s.split('\n')
RECURSIVE split_lines(_)
split_lines(s) ==
  IF \A i \in 1..Len(s) : s[i] # "\n" THEN << s >>
  ELSE LET nl == CHOOSE i \in 1..Len(s) :
                   s[i] = "\n" /\ \A j \in 1..(i - 1) : s[j] # "\n"
       IN  << SubSeq(s, 1, nl - 1) >> \o split_lines(DropFirst(s, nl))

\* '\n'.join(lines)
RECURSIVE join_lines(_)
join_lines(lines) ==
  IF lines = << >> THEN << >>
  ELSE IF Len(lines) = 1 THEN lines[1]
       ELSE lines[1] \o << "\n" >> \o join_lines(Tail(lines))

----------------------------------------------------------------------------
(* Python dict operations on a sequence of entries with a key field        *)

HasKey(d, k) == \E i \in 1..Len(d) : d[i].key = k

Entry(d, k) == d[CHOOSE i \in 1..Len(d) : d[i].key = k]

----------------------------------------------------------------------------
(* The files under test                                                    *)

MaxLines == 3

\* value_preview = node['value'][:30] if len(node['value']) > 30 else ...
SignaturePreviewLen == 30

LongLine == [i \in 1..SignaturePreviewLen |-> "q"]

\* the lines a file is made of: two functions, a plain statement, a
\* statement compress_value shortens, a line of exactly SignaturePreviewLen
\* characters, the same line with a comment marker after it, a blank line
LinePool ==
  { <<"f", "n", " ", "a">>, <<"f", "n", " ", "b">>, <<"x">>, <<"r", "e", "t", "u", "r", "n", " ", "x">>, LongLine, LongLine \o <<"#">>, << >> }

Languages == { <<"r", "u", "s", "t">>, <<"p", "y", "t", "h", "o", "n">> }

FileContents ==
  { join_lines(ls) : ls \in UNION { [1..n -> LinePool] : n \in 0..MaxLines } }

\* a file in which the same statement and the same comment each occur twice
ScenarioLines ==
  << <<"l", "e", "t", " ", "x", " ", "=", " ", "1", ";">>,
     <<"l", "e", "t", " ", "x", " ", "=", " ", "1", ";">>,
     <<"/", "/", " ", "n", "o", "t", "e">>,
     <<"l", "e", "t", " ", "y", " ", "=", " ", "2", ";">>,
     <<"/", "/", " ", "n", "o", "t", "e">> >>

DemoLanguage == <<"d", "e", "m", "o">>

\* one-line files, one or more for every keyword of the classifiers, some
\* with keywords of two rules, some in upper case
ClassifierLines ==
  { <<"f", "u", "n", "c", "t", "i", "o", "n", " ", "f">>,
    <<"d", "e", "f", " ", "f">>,
    <<"p", "u", "b", " ", "f", "n", " ", "f">>,
    <<"c", "l", "a", "s", "s", " ", "A">>,
    <<"s", "t", "r", "u", "c", "t", " ", "S">>,
    <<"i", "m", "p", "l", " ", "X">>,
    <<"t", "r", "a", "i", "t", " ", "T">>,
    <<"i", "f", " ", "x">>,
    <<"e", "l", "s", "e">>,
    <<"m", "a", "t", "c", "h", " ", "x">>,
    <<"s", "w", "i", "t", "c", "h", " ", "x">>,
    <<"f", "o", "r", " ", "x">>,
    <<"w", "h", "i", "l", "e", " ", "x">>,
    <<"l", "o", "o", "p", " ", "x">>,
    <<"r", "e", "t", "u", "r", "n", " ", "y">>,
    <<"y", "i", "e", "l", "d", " ", "y">>,
    <<"b", "r", "e", "a", "k", " ", "x">>,
    <<"i", "m", "p", "o", "r", "t", " ", "o", "s">>,
    <<"u", "s", "e", " ", "s", "t", "d">>,
    <<"e", "x", "t", "e", "r", "n", " ", "c">>,
    <<"/", "/", " ", "c">>,
    <<"/", "*", " ", "c">>,
    <<"#", " ", "c">>,
    <<"l", "e", "t", " ", "x">>,
    <<"v", "a", "r", " ", "x">>,
    <<"c", "o", "n", "s", "t", " ", "x">>,
    <<"m", "u", "t", " ", "x">>,
    <<"i", "f", " ", "x", " ", "r", "e", "t", "u", "r", "n", " ", "y">>,
    <<"f", "o", "r", " ", "x", " ", "/", "/", " ", "c">>,
    <<"i", "m", "p", "o", "r", "t", " ", "x", " ", "#", " ", "c">>,
    <<"c", "l", "a", "s", "s", " ", "A", " ", "d", "e", "f", " ", "f">>,
    <<"w", "h", "i", "l", "e", " ", "l", "e", "t", " ", "x">>,
    <<"l", "e", "t", " ", "x", " ", "=", " ", "f", "n", " ", "y">>,
    <<"I", "F", " ", "X">>,
    <<"R", "e", "t", "u", "r", "n", " ", "Y">> }

\* one-line files for compress_value: keywords it replaces by a text of the
\* same length or a shorter one, in lower, title and upper case, and
\* prefixes it removes or is too short to remove
CompressibleLines ==
  { <<"F", "a", "l", "s", "e">>,
    <<"N", "u", "l", "l">>,
    <<"r", "e", "t", "u", "r", "n", " ", "F", "a", "l", "s", "e">>,
    <<"F", "u", "n", "c", "t", "i", "o", "n", " ", "f">>,
    <<"R", "E", "T", "U", "R", "N", " ", "x">>,
    <<"g", "e", "t", "X">>,
    <<"i", "s", "a", "b">>,
    <<"i", "s", " ", "x">>,
    <<"N", "e", "w", " ", "x">>,
    <<"f", "u", "n", "c", "t", "i", "o", "n">> }

\* two-line files whose lines differ in letter case only, within the first
\* SignaturePreviewLen characters or after them
CasePairs ==
  { << <<"f", "n", " ", "a">>, <<"F", "n", " ", "A">> >>,
    << <<"/", "/", " ", "N", "o", "t", "e">>, <<"/", "/", " ", "n", "o", "t", "e">> >>,
    << LongLine \o <<"a">>, LongLine \o <<"A">> >> }

\* files with indented lines, lines of white space only, a trailing newline
\* and carriage returns
PaddedFiles ==
  { <<" ", " ", "x", " ", "\n", "\t", "\n", "f", "n", " ", "a">>,
    <<"\n", "\n", " ", " ", "f", "n", " ", "a", "\r", "\n", " ", "x", "\r", "\n">>,
    <<" ", "\t", " ">>,
    <<"x", "\n">>,
    <<"\t", "f", "n", " ", "a", "\n", "\t", "f", "n", " ", "a">>,
    <<" ", " ", "f", "n", " ", "a", "\n", "f", "n", " ", "a">>,
    <<"#", " ", "c", "\n", "#", " ", "c", "\n", " ", " ", "#", " ", "c">> }

\* a line of more than 50 characters
VeryLongLine == [i \in 1..51 |-> "z"]

\* two lines that differ after their first 50 characters only
LongPairs == { << VeryLongLine \o <<"a">>, VeryLongLine \o <<"b">> >> }

\* the (file content, language) pairs test_compression_on_file is called with
Inputs ==
  { <<c, l>> : c \in FileContents, l \in Languages }
    \cup { <<join_lines(ScenarioLines), DemoLanguage>> }
    \cup { <<c, l>> : c \in ClassifierLines \cup CompressibleLines, l \in Languages }
    \cup { <<join_lines(ls), l>> : ls \in CasePairs \cup LongPairs, l \in Languages }
    \cup { <<c, l>> : c \in PaddedFiles, l \in Languages }

\* the values the nodes of these files carry
PoolValues ==
  ( { strip(l) : l \in LinePool \cup ClassifierLines \cup CompressibleLines }
      \cup { ScenarioLines[i] : i \in DOMAIN ScenarioLines }
      \cup UNION { { ls[1], ls[2] } : ls \in CasePairs \cup LongPairs } ) \ { << >> }

----------------------------------------------------------------------------
(* Value Compressor                                                        *)

common_patterns ==
  << <<<<"f", "u", "n", "c", "t", "i", "o", "n">>, <<"f", "n">>>>,
     <<<<"r", "e", "t", "u", "r", "n">>, <<"r", "e", "t">>>>,
     <<<<"v", "a", "r", "i", "a", "b", "l", "e">>, <<"v", "a", "r">>>>,
     <<<<"c", "o", "n", "s", "t", "a", "n", "t">>, <<"c", "o", "n", "s", "t">>>>,
     <<<<"p", "u", "b", "l", "i", "c">>, <<"p", "u", "b">>>>,
     <<<<"p", "r", "i", "v", "a", "t", "e">>, <<"p", "r", "i", "v">>>>,
     <<<<"p", "r", "o", "t", "e", "c", "t", "e", "d">>, <<"p", "r", "o", "t">>>>,
     <<<<"i", "n", "t", "e", "r", "f", "a", "c", "e">>, <<"i", "f", "a", "c", "e">>>>,
     <<<<"i", "m", "p", "l", "e", "m", "e", "n", "t", "a", "t", "i", "o", "n">>, <<"i", "m", "p", "l">>>>,
     <<<<"n", "a", "m", "e", "s", "p", "a", "c", "e">>, <<"n", "s">>>>,
     <<<<"e", "x", "c", "e", "p", "t", "i", "o", "n">>, <<"e", "x", "c">>>>,
     <<<<"p", "a", "r", "a", "m", "e", "t", "e", "r">>, <<"p", "a", "r", "a", "m">>>>,
     <<<<"a", "r", "g", "u", "m", "e", "n", "t">>, <<"a", "r", "g">>>>,
     <<<<"d", "i", "c", "t", "i", "o", "n", "a", "r", "y">>, <<"d", "i", "c", "t">>>>,
     <<<<"a", "r", "r", "a", "y">>, <<"a", "r", "r">>>>,
     <<<<"s", "t", "r", "i", "n", "g">>, <<"s", "t", "r">>>>,
     <<<<"i", "n", "t", "e", "g", "e", "r">>, <<"i", "n", "t">>>>,
     <<<<"b", "o", "o", "l", "e", "a", "n">>, <<"b", "o", "o", "l">>>>,
     <<<<"f", "l", "o", "a", "t", "i", "n", "g">>, <<"f", "l", "o", "a", "t">>>>,
     <<<<"c", "h", "a", "r", "a", "c", "t", "e", "r">>, <<"c", "h", "a", "r">>>>,
     <<<<"p", "o", "i", "n", "t", "e", "r">>, <<"p", "t", "r">>>>,
     <<<<"r", "e", "f", "e", "r", "e", "n", "c", "e">>, <<"r", "e", "f">>>>,
     <<<<"i", "t", "e", "r", "a", "t", "o", "r">>, <<"i", "t", "e", "r">>>>,
     <<<<"t", "e", "m", "p", "l", "a", "t", "e">>, <<"t", "p", "l">>>>,
     <<<<"g", "e", "n", "e", "r", "i", "c">>, <<"g", "e", "n">>>>,
     <<<<"a", "b", "s", "t", "r", "a", "c", "t">>, <<"a", "b", "s">>>>,
     <<<<"v", "i", "r", "t", "u", "a", "l">>, <<"v", "i", "r", "t">>>>,
     <<<<"s", "t", "a", "t", "i", "c">>, <<"s", "t", "a", "t">>>>,
     <<<<"f", "i", "n", "a", "l">>, <<"f", "i", "n">>>>,
     <<<<"o", "v", "e", "r", "r", "i", "d", "e">>, <<"o", "v", "r">>>>,
     <<<<"s", "y", "n", "c", "h", "r", "o", "n", "i", "z", "e", "d">>, <<"s", "y", "n", "c">>>>,
     <<<<"v", "o", "l", "a", "t", "i", "l", "e">>, <<"v", "o", "l">>>>,
     <<<<"t", "r", "a", "n", "s", "i", "e", "n", "t">>, <<"t", "r", "a", "n", "s">>>>,
     <<<<"n", "a", "t", "i", "v", "e">>, <<"n", "a", "t">>>>,
     <<<<"s", "t", "r", "i", "c", "t", "f", "p">>, <<"s", "t", "r", "i", "c", "t">>>>,
     <<<<"e", "n", "u", "m", "e", "r", "a", "t", "i", "o", "n">>, <<"e", "n", "u", "m">>>>,
     <<<<"a", "n", "n", "o", "t", "a", "t", "i", "o", "n">>, <<"a", "n", "n">>>>,
     <<<<"d", "e", "p", "r", "e", "c", "a", "t", "e", "d">>, <<"d", "e", "p">>>>,
     <<<<"s", "u", "p", "p", "r", "e", "s", "s">>, <<"s", "u", "p">>>>,
     <<<<"p", "a", "c", "k", "a", "g", "e">>, <<"p", "k", "g">>>>,
     <<<<"i", "m", "p", "o", "r", "t">>, <<"i", "m", "p">>>>,
     <<<<"e", "x", "p", "o", "r", "t">>, <<"e", "x", "p">>>>,
     <<<<"d", "e", "f", "a", "u", "l", "t">>, <<"d", "e", "f">>>>,
     <<<<"e", "x", "t", "e", "n", "d", "s">>, <<"e", "x", "t">>>>,
     <<<<"i", "m", "p", "l", "e", "m", "e", "n", "t", "s">>, <<"i", "m", "p", "l">>>>,
     <<<<"t", "h", "r", "o", "w", "s">>, <<"t", "h", "r">>>>,
     <<<<"t", "r", "y">>, <<"t", "r", "y">>>>,
     <<<<"c", "a", "t", "c", "h">>, <<"c", "a", "t">>>>,
     <<<<"f", "i", "n", "a", "l", "l", "y">>, <<"f", "i", "n">>>>,
     <<<<"t", "h", "r", "o", "w">>, <<"t", "h", "r">>>>,
     <<<<"n", "e", "w">>, <<"n", "e", "w">>>>,
     <<<<"t", "h", "i", "s">>, <<"t", "h", "i", "s">>>>,
     <<<<"s", "u", "p", "e", "r">>, <<"s", "u", "p", "e", "r">>>>,
     <<<<"n", "u", "l", "l">>, <<"n", "u", "l", "l">>>>,
     <<<<"t", "r", "u", "e">>, <<"t", "r", "u", "e">>>>,
     <<<<"f", "a", "l", "s", "e">>, <<"f", "a", "l", "s", "e">>>> >>
prefixes_to_remove ==
  << <<"g", "e", "t">>, <<"s", "e", "t">>, <<"i", "s">>, <<"h", "a", "s">>, <<"c", "a", "n">>, <<"s", "h", "o", "u", "l", "d">>, <<"w", "i", "l", "l">>, <<"d", "o">> >>


\* compress_value, the loop over common_patterns.items() from entry k on
RECURSIVE apply_common_patterns(_, _)
apply_common_patterns(compressed, k) ==
  IF k > Len(common_patterns) THEN compressed
  ELSE LET pattern     == common_patterns[k][1]
           replacement == common_patterns[k][2]
       IN  IF contains(lower(compressed), pattern)
           THEN apply_common_patterns(
                  replace(replace(replace(compressed, pattern, replacement),
                                  title(pattern), replacement),
                          upper(pattern), upper(replacement)),
                  k + 1)
           ELSE apply_common_patterns(compressed, k + 1)

\* compress_value, the loop over prefixes_to_remove from entry k on
RECURSIVE remove_prefixes(_, _)
remove_prefixes(compressed, k) ==
  IF k > Len(prefixes_to_remove) THEN compressed
  ELSE LET prefix == prefixes_to_remove[k]
       IN  IF startswith(lower(compressed), prefix)
              /\ Len(compressed) > Len(prefix) + 2
           THEN remove_prefixes(DropFirst(compressed, Len(prefix)), k + 1)
           ELSE remove_prefixes(compressed, k + 1)

\* compress_value returning the transformed text whatever its length
compress_value_body_unguarded(value) ==
  IF value = << >> THEN value
  ELSE remove_prefixes(apply_common_patterns(value, 1), 1)

compress_value_body(value) ==
  IF value = << >> THEN value
  ELSE LET compressed == remove_prefixes(apply_common_patterns(value, 1), 1)
       IN  IF Len(compressed) < Len(value) THEN compressed ELSE value

\* compress_value_body on the pool's values, computed once
CompressedPool == { << v, compress_value_body(v) >> : v \in PoolValues }

compress_value(value) ==
  IF value \in PoolValues
  THEN (CHOOSE p \in CompressedPool : p[1] = value)[2]
  ELSE compress_value_body(value)

type_mapping ==
  << <<<<"l", "i", "n", "e">>, <<"l">>>>,
     <<<<"s", "t", "a", "t", "e", "m", "e", "n", "t">>, <<"s">>>>,
     <<<<"f", "u", "n", "c", "t", "i", "o", "n">>, <<"f">>>>,
     <<<<"c", "l", "a", "s", "s">>, <<"c">>>>,
     <<<<"v", "a", "r", "i", "a", "b", "l", "e">>, <<"v">>>>,
     <<<<"c", "o", "m", "m", "e", "n", "t">>, <<"c", "m">>>>,
     <<<<"c", "o", "n", "t", "r", "o", "l">>, <<"c", "t", "r", "l">>>> >>

\* type_mapping.get(type_str, type_str)
compress_type(type_str) ==
  IF \E k \in 1..Len(type_mapping) : type_mapping[k][1] = type_str
  THEN type_mapping[CHOOSE k \in 1..Len(type_mapping) : type_mapping[k][1] = type_str][2]
  ELSE type_str

----------------------------------------------------------------------------
(* Signature Generator                                                     *)

Colon == << ":" >>

\* create_compact_signature lower-casing the text before taking the preview
create_compact_signature_case_folded(node) ==
  LET value_preview ==
        IF Len(node.value) > SignaturePreviewLen
        THEN SubSeq(lower(node.value), 1, SignaturePreviewLen)
        ELSE lower(node.value)
  IN  node.type \o Colon \o value_preview \o Colon \o node.language

\* f"{node['type']}:{value_preview}:{node['language']}"
create_compact_signature(node) ==
  LET value_preview ==
        IF Len(node.value) > SignaturePreviewLen
        THEN SubSeq(node.value, 1, SignaturePreviewLen)
        ELSE node.value
  IN  node.type \o Colon \o value_preview \o Colon \o node.language

FunctionKeywords == << <<"f", "u", "n", "c", "t", "i", "o", "n">>, <<"d", "e", "f", " ">>, <<"f", "n", " ">>, <<"p", "u", "b", " ", "f", "n">>, <<"f", "n", " ">> >>
TypeKeywords     == << <<"c", "l", "a", "s", "s", " ">>, <<"s", "t", "r", "u", "c", "t", " ">>, <<"i", "m", "p", "l", " ">>, <<"t", "r", "a", "i", "t", " ">> >>
ControlKeywords  == << <<"i", "f", " ">>, <<"e", "l", "s", "e">>, <<"m", "a", "t", "c", "h", " ">>, <<"s", "w", "i", "t", "c", "h", " ">> >>
LoopKeywords     == << <<"f", "o", "r", " ">>, <<"w", "h", "i", "l", "e", " ">>, <<"l", "o", "o", "p", " ">> >>
FlowKeywords     == << <<"r", "e", "t", "u", "r", "n", " ">>, <<"y", "i", "e", "l", "d", " ">>, <<"b", "r", "e", "a", "k", " ">> >>
ImportKeywords   == << <<"i", "m", "p", "o", "r", "t", " ">>, <<"u", "s", "e", " ">>, <<"e", "x", "t", "e", "r", "n", " ">> >>
CommentKeywords  == << <<"/", "/">>, <<"/", "*">>, <<"#">>, <<"/", "/", "/">> >>
VariableKeywords == << <<"l", "e", "t", " ">>, <<"v", "a", "r", " ">>, <<"c", "o", "n", "s", "t", " ">>, <<"m", "u", "t", " ">> >>

\* the rules of create_semantic_signature with the comment rule tried before
\* the loop, flow and import rules
semantic_category_body_comment_early(node_value) ==
  LET value == strip(lower(node_value))
  IN  IF any_keyword_in(value, FunctionKeywords) THEN <<"f", "u", "n", "c", "t", "i", "o", "n", "_", "d", "e", "c", "l">>
      ELSE IF any_keyword_in(value, TypeKeywords) THEN <<"t", "y", "p", "e", "_", "d", "e", "c", "l">>
      ELSE IF any_keyword_in(value, ControlKeywords) THEN <<"c", "o", "n", "t", "r", "o", "l", "_", "f", "l", "o", "w">>
      ELSE IF any_keyword_in(value, CommentKeywords) THEN <<"c", "o", "m", "m", "e", "n", "t">>
      ELSE IF any_keyword_in(value, LoopKeywords) THEN <<"l", "o", "o", "p", "_", "c", "o", "n", "s", "t", "r", "u", "c", "t">>
      ELSE IF any_keyword_in(value, FlowKeywords) THEN <<"f", "l", "o", "w", "_", "c", "o", "n", "t", "r", "o", "l">>
      ELSE IF any_keyword_in(value, ImportKeywords) THEN <<"i", "m", "p", "o", "r", "t", "_", "s", "t", "a", "t", "e", "m", "e", "n", "t">>
      ELSE IF any_keyword_in(value, VariableKeywords) THEN <<"v", "a", "r", "i", "a", "b", "l", "e", "_", "d", "e", "c", "l">>
      ELSE <<"o", "t", "h", "e", "r">>

\* the category create_semantic_signature puts before ':' + language
semantic_category_body(node_value) ==
  LET value == strip(lower(node_value))
  IN  IF any_keyword_in(value, FunctionKeywords) THEN <<"f", "u", "n", "c", "t", "i", "o", "n", "_", "d", "e", "c", "l">>
      ELSE IF any_keyword_in(value, TypeKeywords) THEN <<"t", "y", "p", "e", "_", "d", "e", "c", "l">>
      ELSE IF any_keyword_in(value, ControlKeywords) THEN <<"c", "o", "n", "t", "r", "o", "l", "_", "f", "l", "o", "w">>
      ELSE IF any_keyword_in(value, LoopKeywords) THEN <<"l", "o", "o", "p", "_", "c", "o", "n", "s", "t", "r", "u", "c", "t">>
      ELSE IF any_keyword_in(value, FlowKeywords) THEN <<"f", "l", "o", "w", "_", "c", "o", "n", "t", "r", "o", "l">>
      ELSE IF any_keyword_in(value, ImportKeywords) THEN <<"i", "m", "p", "o", "r", "t", "_", "s", "t", "a", "t", "e", "m", "e", "n", "t">>
      ELSE IF any_keyword_in(value, CommentKeywords) THEN <<"c", "o", "m", "m", "e", "n", "t">>
      ELSE IF any_keyword_in(value, VariableKeywords) THEN <<"v", "a", "r", "i", "a", "b", "l", "e", "_", "d", "e", "c", "l">>
      ELSE <<"o", "t", "h", "e", "r">>

\* semantic_category_body on the pool's values, computed once
CategoryPool == { << v, semantic_category_body(v) >> : v \in PoolValues }

semantic_category(node) ==
  IF node.value \in PoolValues
  THEN (CHOOSE p \in CategoryPool : p[1] = node.value)[2]
  ELSE semantic_category_body(node.value)

create_semantic_signature(node) ==
  semantic_category(node) \o Colon \o node.language

DetectFunctionKeywords == << <<"f", "u", "n", "c", "t", "i", "o", "n">>, <<"d", "e", "f", " ">>, <<"f", "n", " ">> >>
DetectTypeKeywords     == << <<"c", "l", "a", "s", "s", " ">>, <<"s", "t", "r", "u", "c", "t", " ">> >>
DetectControlKeywords  == << <<"i", "f", " ">>, <<"e", "l", "s", "e">> >>
DetectCommentKeywords  == << <<"/", "/">>, <<"/", "*">>, <<"#">> >>
DetectVariableKeywords == << <<"l", "e", "t", " ">>, <<"v", "a", "r", " ">>, <<"c", "o", "n", "s", "t", " ">> >>

detect_semantic_type_body(node_value) ==
  LET value == strip(lower(node_value))
  IN  IF any_keyword_in(value, DetectFunctionKeywords) THEN <<"f", "u", "n", "c", "t", "i", "o", "n">>
      ELSE IF any_keyword_in(value, DetectTypeKeywords) THEN <<"t", "y", "p", "e">>
      ELSE IF any_keyword_in(value, DetectControlKeywords) THEN <<"c", "o", "n", "t", "r", "o", "l">>
      ELSE IF any_keyword_in(value, DetectCommentKeywords) THEN <<"c", "o", "m", "m", "e", "n", "t">>
      ELSE IF any_keyword_in(value, DetectVariableKeywords) THEN <<"v", "a", "r", "i", "a", "b", "l", "e">>
      ELSE <<"s", "t", "a", "t", "e", "m", "e", "n", "t">>

\* detect_semantic_type_body on the pool's values, computed once
SemanticTypePool == { << v, detect_semantic_type_body(v) >> : v \in PoolValues }

detect_semantic_type(node) ==
  IF node.value \in PoolValues
  THEN (CHOOSE p \in SemanticTypePool : p[1] = node.value)[2]
  ELSE detect_semantic_type_body(node.value)

CommonConstructs == { <<"f", "u", "n", "c", "t", "i", "o", "n">>, <<"t", "y", "p", "e">>, <<"c", "o", "n", "t", "r", "o", "l">>, <<"c", "o", "m", "m", "e", "n", "t">>, <<"v", "a", "r", "i", "a", "b", "l", "e">> }

\* template.get('semantic_type', '') in [...]
is_common_construct(template) ==
  (IF "semantic_type" \in DOMAIN template THEN template.semantic_type ELSE << >>)
    \in CommonConstructs

----------------------------------------------------------------------------
(* Line Model Builder                                                      *)

LineType == <<"l", "i", "n", "e">>

\* create_test_ast numbering the nodes by their position among the lines kept
create_test_ast_renumbered(text, lang) ==
  LET lines == split_lines(text)
      built[i \in 0..Len(lines)] ==
        IF i = 0 THEN << >>
        ELSE IF strip(lines[i]) # << >>
             THEN Append(built[i-1],
                         [type        |-> LineType,
                          value       |-> strip(lines[i]),
                          line_number |-> Len(built[i-1]) + 1,
                          children    |-> << >>,
                          language    |-> lang])
             ELSE built[i-1]
  IN  built[Len(lines)]

\* create_test_ast: one node per line that does not strip to nothing,
\* numbered by its 1-based position among all the lines of the text
create_test_ast(text, lang) ==
  LET lines == split_lines(text)
      built[i \in 0..Len(lines)] ==
        IF i = 0 THEN << >>
        ELSE IF strip(lines[i]) # << >>
             THEN Append(built[i-1],
                         [type        |-> LineType,
                          value       |-> strip(lines[i]),
                          line_number |-> i,
                          children    |-> << >>,
                          language    |-> lang])
             ELSE built[i-1]
  IN  built[Len(lines)]

----------------------------------------------------------------------------
(* Dictionary Builder and Encoder: simulate_compression                    *)

\* Phase 1, one iteration, the exact-signature half
count_pattern(pats, node) ==
  LET signature == create_compact_signature(node)
  IN  IF HasKey(pats, signature)
      THEN [i \in 1..Len(pats) |->
              IF pats[i].key = signature
              THEN [pats[i] EXCEPT !.count = @ + 1] ELSE pats[i]]
      ELSE Append(pats,
                  [key      |-> signature,
                   count    |-> 1,
                   template |-> [type     |-> node.type,
                                 value    |-> compress_value(node.value),
                                 language |-> node.language]])

\* count_semantic storing the template of the line at hand on every
\* occurrence, so that the last line's template is kept
count_semantic_last_template(sems, node) ==
  LET semantic_key == create_semantic_signature(node)
      template     == [type          |-> node.type,
                       value         |-> compress_value(node.value),
                       language      |-> node.language,
                       semantic_type |-> detect_semantic_type(node)]
  IN  IF HasKey(sems, semantic_key)
      THEN [i \in 1..Len(sems) |->
              IF sems[i].key = semantic_key
              THEN [sems[i] EXCEPT !.count = @ + 1, !.template = template]
              ELSE sems[i]]
      ELSE Append(sems, [key |-> semantic_key, count |-> 1, template |-> template])

\* Phase 1, one iteration, the semantic-signature half
count_semantic(sems, node) ==
  LET semantic_key == create_semantic_signature(node)
  IN  IF HasKey(sems, semantic_key)
      THEN [i \in 1..Len(sems) |->
              IF sems[i].key = semantic_key
              THEN [sems[i] EXCEPT !.count = @ + 1] ELSE sems[i]]
      ELSE Append(sems,
                  [key      |-> semantic_key,
                   count    |-> 1,
                   template |-> [type          |-> node.type,
                                 value         |-> compress_value(node.value),
                                 language      |-> node.language,
                                 semantic_type |-> detect_semantic_type(node)]])

\* Phase 1: the loop over nodes
detect_patterns(ns) ==
  LET pats[i \in 0..Len(ns)] ==
        IF i = 0 THEN << >> ELSE count_pattern(pats[i-1], ns[i])
      sems[i \in 0..Len(ns)] ==
        IF i = 0 THEN << >> ELSE count_semantic(sems[i-1], ns[i])
  IN  [patterns |-> pats[Len(ns)], semantic_patterns |-> sems[Len(ns)]]

\* the counters kept on the tester and not reset between calls
counter_kept_across_calls == run - 1

\* the value pattern_counter and semantic_counter start from
InitialCounter == 0

\* build_pattern_dict without the test info['count'] > 1
build_pattern_dict_unfiltered(pats) ==
  [i \in 1..Len(pats) |->
     [key |-> pats[i].key, id |-> InitialCounter + i - 1,
      template |-> pats[i].template, count |-> pats[i].count]]

\* Phase 2, regular patterns: for signature, info in patterns.items()
build_pattern_dict(pats) ==
  LET loop[i \in 0..Len(pats)] ==
        IF i = 0 THEN [dict |-> << >>, pattern_counter |-> InitialCounter]
        ELSE IF pats[i].count > 1
             THEN [dict |-> Append(loop[i-1].dict,
                                   [key      |-> pats[i].key,
                                    id       |-> loop[i-1].pattern_counter,
                                    template |-> pats[i].template,
                                    count    |-> pats[i].count]),
                   pattern_counter |-> loop[i-1].pattern_counter + 1]
             ELSE loop[i-1]
  IN  loop[Len(pats)].dict

\* build_semantic_dict advancing semantic_counter for every signature of
\* semantic_patterns, kept or not
build_semantic_dict_counting_all(sems) ==
  LET loop[i \in 0..Len(sems)] ==
        IF i = 0 THEN [dict |-> << >>, semantic_counter |-> InitialCounter]
        ELSE IF sems[i].count > 1 \/ is_common_construct(sems[i].template)
             THEN [dict |-> Append(loop[i-1].dict,
                                   [key           |-> sems[i].key,
                                    id            |-> loop[i-1].semantic_counter,
                                    template      |-> sems[i].template,
                                    count         |-> sems[i].count,
                                    semantic_type |-> sems[i].template.semantic_type]),
                   semantic_counter |-> loop[i-1].semantic_counter + 1]
             ELSE [loop[i-1] EXCEPT !.semantic_counter = @ + 1]
  IN  loop[Len(sems)].dict

\* build_semantic_dict keeping the common constructs only, whatever the count
build_semantic_dict_common_only(sems) ==
  LET loop[i \in 0..Len(sems)] ==
        IF i = 0 THEN [dict |-> << >>, semantic_counter |-> InitialCounter]
        ELSE IF is_common_construct(sems[i].template)
             THEN [dict |-> Append(loop[i-1].dict,
                                   [key           |-> sems[i].key,
                                    id            |-> loop[i-1].semantic_counter,
                                    template      |-> sems[i].template,
                                    count         |-> sems[i].count,
                                    semantic_type |-> sems[i].template.semantic_type]),
                   semantic_counter |-> loop[i-1].semantic_counter + 1]
             ELSE loop[i-1]
  IN  loop[Len(sems)].dict

\* Phase 2, semantic patterns: for semantic_key, info in semantic_patterns.items()
build_semantic_dict(sems) ==
  LET loop[i \in 0..Len(sems)] ==
        IF i = 0 THEN [dict |-> << >>, semantic_counter |-> InitialCounter]
        ELSE IF sems[i].count > 1 \/ is_common_construct(sems[i].template)
             THEN [dict |-> Append(loop[i-1].dict,
                                   [key           |-> sems[i].key,
                                    id            |-> loop[i-1].semantic_counter,
                                    template      |-> sems[i].template,
                                    count         |-> sems[i].count,
                                    semantic_type |-> sems[i].template.semantic_type]),
                   semantic_counter |-> loop[i-1].semantic_counter + 1]
             ELSE loop[i-1]
  IN  loop[Len(sems)].dict

\* what evaluating a subscript d[k] with k absent raises
KeyError == << "KeyError" >>

\* the subscript pattern_dict[signature] evaluated without the guard
pattern_guard_missing(pdict, signature) == TRUE

\* the test `signature in pattern_dict` that guards pattern_dict[signature]
pattern_guard(pdict, signature) == HasKey(pdict, signature)

\* encode_node trying the pattern dictionary before the semantic one
encode_node_pattern_first(node, pdict, sdict) ==
  LET signature    == create_compact_signature(node)
      semantic_key == create_semantic_signature(node)
  IN  IF HasKey(pdict, signature) /\ Entry(pdict, signature).count > 1
      THEN << "P", Entry(pdict, signature).id, node.line_number >>
      ELSE IF HasKey(sdict, semantic_key)
           THEN << "S", Entry(sdict, semantic_key).id, node.line_number >>
           ELSE << "O", compress_type(node.type), compress_value(node.value),
                   node.line_number >>

\* Phase 3, one iteration: the record emitted for node, or KeyError
encode_node(node, pdict, sdict) ==
  LET signature    == create_compact_signature(node)
      semantic_key == create_semantic_signature(node)
      original     == << "O", compress_type(node.type), compress_value(node.value),
                         node.line_number >>
  IN  IF HasKey(sdict, semantic_key)
      THEN << "S", Entry(sdict, semantic_key).id, node.line_number >>
      ELSE IF pattern_guard(pdict, signature)
           THEN IF ~HasKey(pdict, signature) THEN KeyError
                ELSE IF Entry(pdict, signature).count > 1
                     THEN << "P", Entry(pdict, signature).id, node.line_number >>
                     ELSE original
           ELSE original

\* Phase 3 appending the records in the opposite order
apply_compression_reversed(ns, pdict, sdict) ==
  [i \in 1..Len(ns) |-> encode_node(ns[Len(ns) + 1 - i], pdict, sdict)]

\* Phase 3: the loop over nodes
apply_compression(ns, pdict, sdict) ==
  [i \in 1..Len(ns) |-> encode_node(ns[i], pdict, sdict)]

\* {}
EmptyDict == [k \in {} |-> << >>]

FormatVersion == <<"5", ".", "0">>

\* Phase 4 with the two dictionary counts exchanged
compressed_structure_counts_exchanged(ns, pdict, sdict, data) ==
  [patterns          |-> pdict,
   semantic_patterns |-> sdict,
   data              |-> data,
   metadata          |-> [total_nodes         |-> Len(ns),
                          pattern_count       |-> Len(sdict),
                          semantic_count      |-> Len(pdict),
                          compression_version |-> FormatVersion,
                          advanced_features   |-> TRUE]]

\* Phase 4: the returned dict
compressed_structure(ns, pdict, sdict, data) ==
  [patterns          |-> pdict,
   semantic_patterns |-> sdict,
   data              |-> data,
   metadata          |-> [total_nodes         |-> Len(ns),
                          pattern_count       |-> Len(pdict),
                          semantic_count      |-> Len(sdict),
                          compression_version |-> FormatVersion,
                          advanced_features   |-> TRUE]]

----------------------------------------------------------------------------
(* Cost model: get_compressed_size                                         *)

\* len(s.encode('utf-8')): every character of the model's texts is ASCII
\* and encodes to one byte
utf8_len(s) == Len(s)

\* pattern_size += 8  # ID and count (8 bytes)
id_and_count_size == 8

\* marker + id + line_number
reference_size == 1 + 1 + 4

\* metadata_size = 50  # Approximate metadata overhead
metadata_size == 50

\* the loop over compressed_data['patterns'].items(), entries 1..k
RECURSIVE pattern_size(_, _)
pattern_size(table, k) ==
  IF k = 0 THEN 0
  ELSE pattern_size(table, k - 1)
         + utf8_len(table[k].key)
         + utf8_len(table[k].template.type)
         + utf8_len(table[k].template.value)
         + utf8_len(table[k].template.language)
         + id_and_count_size

item_size(item) ==
  IF item[1] \in {"P", "S"} THEN reference_size
  ELSE IF item[1] = "O" THEN 1 + utf8_len(item[2]) + utf8_len(item[3]) + 4
  ELSE 0

\* the loop over compressed_data['data'], items 1..k
RECURSIVE data_size(_, _)
data_size(data, k) ==
  IF k = 0 THEN 0 ELSE data_size(data, k - 1) + item_size(data[k])

\* get_compressed_size leaving the metadata block out of the sum
get_compressed_size_without_metadata(cd) ==
  IF DOMAIN cd = {} THEN 0
  ELSE pattern_size(cd.patterns, Len(cd.patterns)) + data_size(cd.data, Len(cd.data))

\* get_compressed_size charging the semantic table like the pattern table
get_compressed_size_with_semantic_table(cd) ==
  IF DOMAIN cd = {} THEN 0
  ELSE pattern_size(cd.patterns, Len(cd.patterns))
         + pattern_size(cd.semantic_patterns, Len(cd.semantic_patterns))
         + data_size(cd.data, Len(cd.data))
         + metadata_size

get_compressed_size(cd) ==
  IF DOMAIN cd = {} THEN 0
  ELSE pattern_size(cd.patterns, Len(cd.patterns))
         + data_size(cd.data, Len(cd.data))
         + metadata_size

----------------------------------------------------------------------------
(* Decoder: simulate_decompression                                         *)

\* find_template taking the id for a 1-based position in the table
find_template_by_position(table, wanted) ==
  IF wanted \in 1..Len(table)
  THEN [found |-> TRUE, template |-> table[wanted].template]
  ELSE [found |-> FALSE]

\* find_template without the test info['id'] == pattern_id
find_template_first_entry(table, wanted) ==
  IF table = << >> THEN [found |-> FALSE]
  ELSE [found |-> TRUE, template |-> table[1].template]

\* the template of the first entry whose id is wanted; found is FALSE when
\* the loop ends with template still None
find_template(table, wanted) ==
  LET hits == {i \in 1..Len(table) : table[i].id = wanted}
  IN  IF hits = {} THEN [found |-> FALSE]
      ELSE [found    |-> TRUE,
            template |-> table[CHOOSE i \in hits : \A j \in hits : i <= j].template]

UnknownLanguage == <<"u", "n", "k", "n", "o", "w", "n">>

\* the loop body turning a Literal record's kind code back into the kind
decode_item_expanding_literal(item, pats, sems, out) ==
  IF item[1] = "P"
  THEN LET t == find_template(pats, item[2])
       IN  IF t.found
           THEN Append(out, [type        |-> t.template.type,
                             value       |-> t.template.value,
                             line_number |-> item[3],
                             language    |-> t.template.language,
                             children    |-> << >>])
           ELSE out
  ELSE IF item[1] = "S"
  THEN LET t == find_template(sems, item[2])
       IN  IF t.found
           THEN Append(out, [type          |-> t.template.type,
                             value         |-> t.template.value,
                             line_number   |-> item[3],
                             language      |-> t.template.language,
                             semantic_type |-> t.template.semantic_type,
                             children      |-> << >>])
           ELSE out
  ELSE IF item[1] = "O"
  THEN Append(out, [type        |-> IF item[2] = compress_type(LineType)
                                    THEN LineType ELSE item[2],
                    value       |-> item[3],
                    line_number |-> item[4],
                    language    |-> UnknownLanguage,
                    children    |-> << >>])
  ELSE out

\* one iteration of the loop over data
decode_item(item, pats, sems, out) ==
  IF item[1] = "P"
  THEN LET t == find_template(pats, item[2])
       IN  IF t.found
           THEN Append(out, [type        |-> t.template.type,
                             value       |-> t.template.value,
                             line_number |-> item[3],
                             language    |-> t.template.language,
                             children    |-> << >>])
           ELSE out
  ELSE IF item[1] = "S"
  THEN LET t == find_template(sems, item[2])
       IN  IF t.found
           THEN Append(out, [type          |-> t.template.type,
                             value         |-> t.template.value,
                             line_number   |-> item[3],
                             language      |-> t.template.language,
                             semantic_type |-> t.template.semantic_type,
                             children      |-> << >>])
           ELSE out
  ELSE IF item[1] = "O"
  THEN Append(out, [type        |-> item[2],
                    value       |-> item[3],
                    line_number |-> item[4],
                    language    |-> UnknownLanguage,
                    children    |-> << >>])
  ELSE out

simulate_decompression(cd) ==
  IF DOMAIN cd = {} \/ "data" \notin DOMAIN cd THEN << >>
  ELSE LET pats == IF "patterns" \in DOMAIN cd THEN cd.patterns ELSE << >>
           sems == IF "semantic_patterns" \in DOMAIN cd
                   THEN cd.semantic_patterns ELSE << >>
           loop[i \in 0..Len(cd.data)] ==
             IF i = 0 THEN << >>
             ELSE decode_item(cd.data[i], pats, sems, loop[i-1])
       IN  loop[Len(cd.data)]

----------------------------------------------------------------------------
(* test_compression_on_file, step by step                                  *)

\* run_real_compression has not been called
IntegrationIdle ==
  /\ ast_nodes = << >>
  /\ compressed_result = << >>
  /\ reconstructed_nodes = << >>

\* no file is under test
CodecIdle ==
  /\ content = << >>
  /\ language = << >>
  /\ nodes = << >>
  /\ pc = "idle"
  /\ run = 1
  /\ patterns = << >>
  /\ semantic_patterns = << >>
  /\ pattern_dict = << >>
  /\ semantic_dict = << >>
  /\ compressed_data = << >>
  /\ doc = EmptyDict
  /\ compressed_size = 0
  /\ reconstructed = << >>
  /\ first_doc = EmptyDict
  /\ error = "none"
  /\ tampered = FALSE

\* no ledger has been made
LedgerIdle ==
  /\ entries = << >>
  /\ ledger_hash = << >>
  /\ public_key = << >>
  /\ private_key = << >>
  /\ clock = 0
  /\ verification_results = EmptyDict
  /\ modified = {}
  /\ calls = {}
  /\ last_call = "none"

\* no runner has been made
RunnerIdle ==
  /\ skip_download = FALSE
  /\ phase_index = 0
  /\ overall_results = EmptyDict
  /\ total_execution_time = 0
  /\ phase_pc = "none"
  /\ executed = << >>

Init ==
  /\ \E input \in Inputs : content = input[1] /\ language = input[2]
  /\ nodes = << >>
  /\ pc = "read"
  /\ run = 1
  /\ patterns = << >>
  /\ semantic_patterns = << >>
  /\ pattern_dict = << >>
  /\ semantic_dict = << >>
  /\ compressed_data = << >>
  /\ doc = EmptyDict
  /\ compressed_size = 0
  /\ reconstructed = << >>
  /\ first_doc = EmptyDict
  /\ error = "none"
  /\ tampered = FALSE
  /\ IntegrationIdle
  /\ LedgerIdle
  /\ RunnerIdle

\* ast_nodes = self.create_test_ast(original_content, language)
CreateAst ==
  /\ pc = "read"
  /\ nodes' = create_test_ast(content, language)
  /\ pc' = "called"
  /\ UNCHANGED << integration_vars, ledger_vars, runner_vars,
                  compressed_size, content, language, run, patterns, semantic_patterns,
                  pattern_dict, semantic_dict, compressed_data, doc,
                  reconstructed, first_doc, error, tampered >>

\* EarlyReturn building the Phase 4 dict for the empty list instead
EarlyReturnFullDocument ==
  /\ pc = "called"
  /\ nodes = << >>
  /\ doc' = compressed_structure(nodes, << >>, << >>, << >>)
  /\ pc' = "encoded"
  /\ UNCHANGED << integration_vars, ledger_vars, runner_vars,
                  compressed_size, content, language, nodes, run, patterns, semantic_patterns,
                  pattern_dict, semantic_dict, compressed_data,
                  reconstructed, first_doc, error, tampered >>

\* simulate_compression: if not nodes: return {}
EarlyReturn ==
  /\ pc = "called"
  /\ nodes = << >>
  /\ doc' = EmptyDict
  /\ pc' = "encoded"
  /\ UNCHANGED << integration_vars, ledger_vars, runner_vars,
                  compressed_size, content, language, nodes, run, patterns, semantic_patterns,
                  pattern_dict, semantic_dict, compressed_data,
                  reconstructed, first_doc, error, tampered >>

Phase1 ==
  /\ pc = "called"
  /\ nodes # << >>
  /\ LET detected == detect_patterns(nodes)
     IN  /\ patterns' = detected.patterns
         /\ semantic_patterns' = detected.semantic_patterns
  /\ pc' = "phase2"
  /\ UNCHANGED << integration_vars, ledger_vars, runner_vars,
                  compressed_size, content, language, nodes, run, pattern_dict, semantic_dict,
                  compressed_data, doc, reconstructed, first_doc, error,
                  tampered >>

Phase2 ==
  /\ pc = "phase2"
  /\ pattern_dict' = build_pattern_dict(patterns)
  /\ semantic_dict' = build_semantic_dict(semantic_patterns)
  /\ pc' = "phase3"
  /\ UNCHANGED << integration_vars, ledger_vars, runner_vars,
                  compressed_size, content, language, nodes, run, patterns, semantic_patterns,
                  compressed_data, doc, reconstructed, first_doc, error,
                  tampered >>

\* Phase 3 counting, in the semantic table, every reference it emits
Phase3_counting_references ==
  /\ pc = "phase3"
  /\ LET data == apply_compression(nodes, pattern_dict, semantic_dict)
     IN  /\ compressed_data' = data
         /\ semantic_dict' =
              [k \in 1..Len(semantic_dict) |->
                 [semantic_dict[k] EXCEPT
                    !.count = @ + Cardinality({i \in 1..Len(data) :
                                                 /\ data[i] # KeyError
                                                 /\ data[i][1] = "S"
                                                 /\ data[i][2] = semantic_dict[k].id})]]
  /\ pc' = "phase4"
  /\ UNCHANGED << integration_vars, ledger_vars, runner_vars,
                  compressed_size, content, language, nodes, run, patterns, semantic_patterns,
                  pattern_dict, doc, reconstructed, first_doc, error, tampered >>

\* the loop stops at the first node whose record raises
Phase3 ==
  /\ pc = "phase3"
  /\ LET data   == apply_compression(nodes, pattern_dict, semantic_dict)
         raised == {i \in 1..Len(data) : data[i] = KeyError}
     IN  IF raised = {}
         THEN /\ compressed_data' = data
              /\ pc' = "phase4"
              /\ error' = error
         ELSE /\ compressed_data' =
                   SubSeq(data, 1, (CHOOSE i \in raised : \A j \in raised : i <= j) - 1)
              /\ pc' = "raised"
              /\ error' = "KeyError"
  /\ UNCHANGED << integration_vars, ledger_vars, runner_vars,
                  compressed_size, content, language, nodes, run, patterns, semantic_patterns,
                  pattern_dict, semantic_dict, doc, reconstructed, first_doc,
                  tampered >>

Phase4 ==
  /\ pc = "phase4"
  /\ doc' = compressed_structure(nodes, pattern_dict, semantic_dict, compressed_data)
  /\ pc' = "encoded"
  /\ UNCHANGED << integration_vars, ledger_vars, runner_vars,
                  compressed_size, content, language, nodes, run, patterns, semantic_patterns,
                  pattern_dict, semantic_dict, compressed_data, reconstructed,
                  first_doc, error, tampered >>

\* compressed_size = self.get_compressed_size(compressed_data)
GetCompressedSize ==
  /\ pc = "encoded"
  /\ compressed_size' = get_compressed_size(doc)
  /\ pc' = "sized"
  /\ UNCHANGED << integration_vars, ledger_vars, runner_vars,
                  content, language, nodes, run, patterns, semantic_patterns,
                  pattern_dict, semantic_dict, compressed_data, doc,
                  reconstructed, first_doc, error, tampered >>

\* reconstructed_nodes = self.simulate_decompression(compressed_data)
Decompress ==
  /\ pc = "sized"
  /\ reconstructed' = simulate_decompression(doc)
  /\ pc' = "decoded"
  /\ UNCHANGED << integration_vars, ledger_vars, runner_vars,
                  compressed_size, content, language, nodes, run, patterns, semantic_patterns,
                  pattern_dict, semantic_dict, compressed_data, doc,
                  first_doc, error, tampered >>

\* the caller keeps the result and the same tester is called on the same
\* nodes again; what the first call left behind is still there, and each
\* phase initialises its own locals
Rerun ==
  /\ pc = "decoded"
  /\ run = 1
  /\ ~tampered
  /\ first_doc' = doc
  /\ run' = 2
  /\ pc' = "called"
  /\ UNCHANGED << integration_vars, ledger_vars, runner_vars,
                  compressed_size, content, language, nodes, patterns, semantic_patterns,
                  pattern_dict, semantic_dict, compressed_data, doc,
                  reconstructed, error, tampered >>

Next ==
  \/ CreateAst
  \/ EarlyReturn
  \/ Phase1
  \/ Phase2
  \/ Phase3
  \/ Phase4
  \/ GetCompressedSize
  \/ Decompress
  \/ Rerun

Spec == Init /\ [][Next]_vars

----------------------------------------------------------------------------
(* Callers that pass hand-made arguments                                   *)

\* line_number of a record of data: the last element of the list
item_line_number(item) == item[Len(item)]

\* a caller hands simulate_decompression a document in which one record was
\* replaced by a Pattern or Semantic reference, to an id of the table or to
\* the first id the table does not hold
CorruptDocument ==
  /\ pc = "encoded"
  /\ run = 1
  /\ ~tampered
  /\ "data" \in DOMAIN doc
  /\ \E i \in 1..Len(doc.data), tag \in {"P", "S"} :
       \E id \in 0..Len(IF tag = "P" THEN doc.patterns ELSE doc.semantic_patterns) :
         /\ doc.data[i] # << tag, id, item_line_number(doc.data[i]) >>
         /\ doc' = [doc EXCEPT !.data[i] = << tag, id, item_line_number(doc.data[i]) >>]
  /\ tampered' = TRUE
  /\ UNCHANGED << integration_vars, ledger_vars, runner_vars,
                  compressed_size, content, language, nodes, pc, run, patterns,
                  semantic_patterns, pattern_dict, semantic_dict,
                  compressed_data, reconstructed, first_doc, error >>

\* a caller hands simulate_compression nodes it numbered itself: one
\* line_number is negative or repeats another node's
MalformNodes ==
  /\ pc = "called"
  /\ run = 1
  /\ ~tampered
  /\ \E i \in 1..Len(nodes) :
       \E n \in {-1} \cup {nodes[j].line_number : j \in (1..Len(nodes)) \ {i}} :
         nodes' = [nodes EXCEPT ![i].line_number = n]
  /\ tampered' = TRUE
  /\ UNCHANGED << integration_vars, ledger_vars, runner_vars,
                  compressed_size, content, language, pc, run, patterns, semantic_patterns,
                  pattern_dict, semantic_dict, compressed_data, doc,
                  reconstructed, first_doc, error >>

NextOpen ==
  \/ Next
  \/ CorruptDocument
  \/ MalformNodes

SpecOpen == Init /\ [][NextOpen]_vars

----------------------------------------------------------------------------
(* The reference-wrapping codec of tests/real_compression_integration_test.py *)
(* (RealCompressionIntegrationTest.run_real_compression)                   *)

\* s.lstrip()
lstrip(s) ==
  LET keep == {i \in 1..Len(s) : s[i] \notin Whitespace}
  IN  IF keep = {} THEN << >>
      ELSE SubSeq(s, CHOOSE i \in keep : \A j \in keep : i <= j, Len(s))

Digits == <<"0", "1", "2", "3", "4", "5", "6", "7", "8", "9">>

\* str(n) of a non-negative int
RECURSIVE str_int(_)
str_int(n) ==
  IF n < 10 THEN << Digits[n + 1] >>
  ELSE str_int(n \div 10) \o << Digits[(n % 10) + 1] >>

\* str(b) of a bool
str_bool(b) == IF b THEN <<"T", "r", "u", "e">> ELSE <<"F", "a", "l", "s", "e">>

StatementType == <<"s", "t", "a", "t", "e", "m", "e", "n", "t">>

\* line.strip().startswith(('#', '//', '/*', '*'))
CommentPrefixes == << <<"#">>, <<"/", "/">>, <<"/", "*">>, <<"*">> >>

is_comment_line(stripped) ==
  \E k \in 1..Len(CommentPrefixes) : startswith(stripped, CommentPrefixes[k])

\* create_realistic_ast: one node per line that does not strip to nothing
create_realistic_ast(text, lang) ==
  LET lines == split_lines(text)
      built[i \in 0..Len(lines)] ==
        IF i = 0 THEN << >>
        ELSE IF strip(lines[i]) # << >>
             THEN Append(built[i-1],
                         [type        |-> StatementType,
                          value       |-> strip(lines[i]),
                          line_number |-> i,
                          language    |-> lang,
                          children    |-> << >>,
                          metadata    |->
                            [indentation |-> Len(lines[i]) - Len(lstrip(lines[i])),
                             has_content |-> strip(lines[i]) # << >>,
                             is_comment  |-> is_comment_line(strip(lines[i])),
                             is_empty    |-> strip(lines[i]) = << >>]])
             ELSE built[i-1]
  IN  built[Len(lines)]

\* node['value'][:50]
PatternValueLen == 50

Bar == << "|" >>

\* "|".join(signature_parts)
create_pattern_signature(node) ==
  node.type \o Bar
    \o SubSeq(node.value, 1, IF Len(node.value) < PatternValueLen
                              THEN Len(node.value) ELSE PatternValueLen) \o Bar
    \o str_int(node.metadata.indentation) \o Bar
    \o str_bool(node.metadata.is_comment) \o Bar
    \o str_int(Len(node.children))

\* the first loop of apply_fixed_compression, one iteration
count_fixed_pattern(pats, node) ==
  LET pattern_key == create_pattern_signature(node)
  IN  IF HasKey(pats, pattern_key)
      THEN [i \in 1..Len(pats) |->
              IF pats[i].key = pattern_key
              THEN [pats[i] EXCEPT !.count = @ + 1, !.nodes = Append(@, node)]
              ELSE pats[i]]
      ELSE Append(pats, [key |-> pattern_key, count |-> 1, nodes |-> << node >>,
                         signature |-> pattern_key])

\* the first loop of apply_fixed_compression
fixed_patterns(ns) ==
  LET pats[i \in 0..Len(ns)] ==
        IF i = 0 THEN << >> ELSE count_fixed_pattern(pats[i-1], ns[i])
  IN  pats[Len(ns)]

\* hash(pattern_key) % 10000
PatternIdModulus == 10000

\* str hashes are salted per process: hash(pattern_key) % 10000 is some
\* number of 0..9999, the same for the same key within a call; the least,
\* the next and the greatest stand for them
PatternIdOutcomes == {0, 1, PatternIdModulus - 1}

PatternReferenceType ==
  <<"p", "a", "t", "t", "e", "r", "n", "_", "r", "e", "f", "e", "r", "e", "n", "c", "e">>

original_node_of(node) ==
  [type        |-> node.type,
   value       |-> node.value,
   line_number |-> node.line_number,
   language    |-> node.language,
   children    |-> node.children,
   metadata    |-> node.metadata]

\* the second loop of apply_fixed_compression, one iteration
wrap_node(node, pats, hash_mod) ==
  LET pattern_key  == create_pattern_signature(node)
      pattern_info == Entry(pats, pattern_key)
  IN  IF pattern_info.count > 1
      THEN [type                |-> PatternReferenceType,
            pattern_id          |-> hash_mod[pattern_key],
            original_node       |-> original_node_of(node),
            pattern_count       |-> pattern_info.count,
            structural_preserved |-> TRUE]
      ELSE node

apply_fixed_compression(ns, hash_mod) ==
  LET pats == fixed_patterns(ns)
  IN  [i \in 1..Len(ns) |-> wrap_node(ns[i], pats, hash_mod)]

\* the loop body of apply_fixed_decompression rebuilding a wrapped node
\* from the node itself instead of its original_node
unwrap_node_flat(node) ==
  IF node.type = PatternReferenceType
  THEN [type        |-> node.type,
        value       |-> node.original_node.value,
        line_number |-> node.original_node.line_number,
        language    |-> node.original_node.language,
        children    |-> node.original_node.children,
        metadata    |-> node.original_node.metadata]
  ELSE node

\* the loop body of apply_fixed_decompression
unwrap_node(node) ==
  IF node.type = PatternReferenceType
  THEN [type        |-> node.original_node.type,
        value       |-> node.original_node.value,
        line_number |-> node.original_node.line_number,
        language    |-> node.original_node.language,
        children    |-> node.original_node.children,
        metadata    |-> node.original_node.metadata]
  ELSE node

apply_fixed_decompression(compressed_nodes) ==
  [i \in 1..Len(compressed_nodes) |-> unwrap_node(compressed_nodes[i])]

\* ast_nodes = self.create_realistic_ast(content, language)
CreateRealisticAst ==
  /\ pc = "read"
  /\ ast_nodes' = create_realistic_ast(content, language)
  /\ pc' = "built"
  /\ UNCHANGED << compressed_size, content, language, nodes, run, patterns,
                  semantic_patterns, pattern_dict, semantic_dict, compressed_data,
                  doc, reconstructed, first_doc, error, tampered,
                  compressed_result, reconstructed_nodes, ledger_vars, runner_vars >>

\* compressed_result = self.apply_fixed_compression(ast_nodes)
ApplyFixedCompression ==
  /\ pc = "built"
  /\ LET keys == { create_pattern_signature(ast_nodes[i]) : i \in 1..Len(ast_nodes) }
     IN  \E hash_mod \in [keys -> PatternIdOutcomes] :
           compressed_result' = apply_fixed_compression(ast_nodes, hash_mod)
  /\ pc' = "wrapped"
  /\ UNCHANGED << compressed_size, content, language, nodes, run, patterns,
                  semantic_patterns, pattern_dict, semantic_dict, compressed_data,
                  doc, reconstructed, first_doc, error, tampered,
                  ast_nodes, reconstructed_nodes, ledger_vars, runner_vars >>

\* reconstructed_nodes = self.apply_fixed_decompression(compressed_result)
ApplyFixedDecompression ==
  /\ pc = "wrapped"
  /\ reconstructed_nodes' = apply_fixed_decompression(compressed_result)
  /\ pc' = "unwrapped"
  /\ UNCHANGED << compressed_size, content, language, nodes, run, patterns,
                  semantic_patterns, pattern_dict, semantic_dict, compressed_data,
                  doc, reconstructed, first_doc, error, tampered,
                  ast_nodes, compressed_result, ledger_vars, runner_vars >>

NextIntegration ==
  \/ CreateRealisticAst
  \/ ApplyFixedCompression
  \/ ApplyFixedDecompression

SpecIntegration == Init /\ [][NextIntegration]_vars

\* the two line model builders, each called on the file
NextBuilders ==
  \/ CreateAst
  \/ CreateRealisticAst

SpecBuilders == Init /\ [][NextBuilders]_vars

----------------------------------------------------------------------------
(* The hash-chained ledger of src/mythgraph_ledger.py                      *)
(*                                                                         *)
(* A SHA-256 digest is the tagged tuple of what was hashed, so that two    *)
(* digests are equal exactly if their inputs are.  A timestamp is the      *)
(* hour of the clock at which the entry was made.                          *)

\* None, where a hash or a signature is expected
None == << "None" >>

\* "0000000000000000000000000000000000000000000000000000000000000000"
ZeroHash == << "0000000000000000000000000000000000000000000000000000000000000000" >>

\* the most entries a ledger is given
MaxEntries == 3

\* the last hour of the clock
MaxTime == 1

\* the data of an entry: dicts whose values json.dumps can write, and one
\* holding a set, which it cannot
DataPool ==
  { << [key |-> <<"s">>, value |-> << "str", "low" >>] >>,
    << [key |-> <<"s">>, value |-> << "str", "high" >>] >>,
    << [key |-> <<"s">>, value |-> << "set", "{1}" >>] >> }

\* the (entry_type, data) add_entry is called with
\* entry_type: Type of entry (incident, paradox, guard_rail, etc.)
EntryPool ==
  { << "incident",   << [key |-> <<"s">>, value |-> << "str", "low" >>] >> >>,
    << "paradox",    << [key |-> <<"s">>, value |-> << "str", "high" >>] >> >>,
    << "guard_rail", << [key |-> <<"s">>, value |-> << "set", "{1}" >>] >> >> }

\* the key strings a ledger is made with
KeyPool == {"key-a", "key-b"}

\* max_age_hours: int = 24 * 7
DefaultMaxAgeHours == 24 * 7

\* the max_age_hours cleanup_old_entries is called with
MaxAgePool == {0, 1, DefaultMaxAgeHours}

\* whether json.dumps(data) returns instead of raising TypeError
json_serializable(data) ==
  \A i \in 1..Len(data) : data[i].value[1] # "set"

\* hashlib.sha256(json.dumps(hash_data, sort_keys=True).encode()).hexdigest()
sha256_of_entry(entry_type, data, timestamp, previous_hash) ==
  << "sha256", entry_type, data, timestamp, previous_hash >>

\* hashlib.sha256(f"{hash}:{key}".encode()).hexdigest()
sha256_of_signature_data(hash, key) == << "sha256", hash, key >>

\* MythGraphEntry(entry_type, data), made at the hour now
MythGraphEntry(entry_type, data, now) ==
  [entry_type    |-> entry_type,
   data          |-> data,
   timestamp     |-> now,
   hash          |-> None,
   signature     |-> None,
   previous_hash |-> None]

\* entry.calculate_hash(previous_hash): the entry afterwards; json.dumps
\* raises TypeError after previous_hash has been stored
calculate_hash(entry, previous_hash) ==
  IF json_serializable(entry.data)
  THEN [entry EXCEPT !.previous_hash = previous_hash,
                     !.hash = sha256_of_entry(entry.entry_type, entry.data,
                                              entry.timestamp, previous_hash)]
  ELSE [entry EXCEPT !.previous_hash = previous_hash]

\* entry.sign_entry(private_key): the entry afterwards
sign_entry(entry, key) ==
  LET hashed == IF entry.hash = None THEN calculate_hash(entry, None) ELSE entry
  IN  [hashed EXCEPT !.signature = sha256_of_signature_data(hashed.hash, key)]

\* verify_signature comparing with nothing: every signed entry passes
verify_signature_any_key(entry, key) ==
  entry.signature # None

\* entry.verify_signature(public_key)
verify_signature(entry, key) ==
  IF entry.signature = None THEN FALSE
  ELSE entry.signature = sha256_of_signature_data(entry.hash, key)

\* f"Verification exception: {str(e)}" for the TypeError of json.dumps
VerificationException ==
  "Verification exception: Object of type set is not JSON serializable"

\* the loop of verify_ledger_integrity comparing the recomputed hash with
\* the hash the entry had before the call
verify_loop_comparing_stored(es, key) ==
  LET loop[i \in 0..Len(es)] ==
        IF i = 0
        THEN [entries |-> es, previous_hash |-> None,
              verified_entries |-> 0, failed_entries |-> 0, errors |-> << >>]
        ELSE LET prior       == loop[i-1]
                 entry       == calculate_hash(es[i], prior.previous_hash)
                 failed(err) == [prior EXCEPT !.entries[i] = entry,
                                              !.errors = Append(@, err),
                                              !.failed_entries = @ + 1]
             IN  IF ~json_serializable(es[i].data)
                 THEN failed([entry_index |-> i - 1, error |-> VerificationException])
                 ELSE IF entry.hash # es[i].hash
                 THEN failed([entry_index |-> i - 1, error |-> "Hash mismatch",
                              expected |-> entry.hash, actual |-> es[i].hash])
                 ELSE IF ~verify_signature(entry, key)
                 THEN failed([entry_index |-> i - 1,
                              error |-> "Signature verification failed"])
                 ELSE [prior EXCEPT !.entries[i] = entry,
                                    !.verified_entries = @ + 1,
                                    !.previous_hash = entry.hash]
  IN  loop[Len(es)]

\* the loop of verify_ledger_integrity: the entries as the calls of
\* calculate_hash leave them, the running previous_hash and the counts
verify_loop(es, key) ==
  LET loop[i \in 0..Len(es)] ==
        IF i = 0
        THEN [entries |-> es, previous_hash |-> None,
              verified_entries |-> 0, failed_entries |-> 0, errors |-> << >>]
        ELSE LET prior           == loop[i-1]
                 entry           == calculate_hash(es[i], prior.previous_hash)
                 calculated_hash == entry.hash
                 failed(err)     == [prior EXCEPT !.entries[i] = entry,
                                                  !.errors = Append(@, err),
                                                  !.failed_entries = @ + 1]
             IN  IF ~json_serializable(es[i].data)
                 THEN failed([entry_index |-> i - 1, error |-> VerificationException])
                 ELSE IF calculated_hash # entry.hash
                 THEN failed([entry_index |-> i - 1, error |-> "Hash mismatch",
                              expected |-> calculated_hash, actual |-> entry.hash])
                 ELSE IF ~verify_signature(entry, key)
                 THEN failed([entry_index |-> i - 1,
                              error |-> "Signature verification failed"])
                 ELSE IF i - 1 > 0 /\ entry.previous_hash # prior.previous_hash
                 THEN failed([entry_index |-> i - 1, error |-> "Previous hash mismatch",
                              expected |-> prior.previous_hash,
                              actual |-> entry.previous_hash])
                 ELSE [prior EXCEPT !.entries[i] = entry,
                                    !.verified_entries = @ + 1,
                                    !.previous_hash = entry.hash]
  IN  loop[Len(es)]

\* verified_entries / total_entries, as the pair of the two numbers; 0.0
\* for the empty ledger
integrity_score(verified_entries, total_entries) ==
  IF total_entries > 0 THEN << verified_entries, total_entries >> ELSE << 0, 1 >>

\* the dict verify_ledger_integrity returns
verification_dict(looped) ==
  [total_entries    |-> Len(looped.entries),
   verified_entries |-> looped.verified_entries,
   failed_entries   |-> looped.failed_entries,
   errors           |-> looped.errors,
   integrity_score  |-> integrity_score(looped.verified_entries, Len(looped.entries))]

\* the indices of the entries cleanup_old_entries keeps, in order
kept_indices(es, now, max_age_hours) ==
  LET keep(i) == es[i].timestamp > now - max_age_hours
      loop[i \in 0..Len(es)] ==
        IF i = 0 THEN << >>
        ELSE IF keep(i) THEN Append(loop[i-1], i) ELSE loop[i-1]
  IN  loop[Len(es)]

\* the second loop of cleanup_old_entries leaving the signatures as they are
recalculate_hashes_unsigned(es, key) ==
  LET loop[i \in 0..Len(es)] ==
        IF i = 0 THEN [entries |-> es, previous_hash |-> None, raised |-> 0]
        ELSE LET prior == loop[i-1]
                 entry == calculate_hash(es[i], prior.previous_hash)
             IN  IF prior.raised > 0 THEN prior
                 ELSE IF ~json_serializable(es[i].data)
                 THEN [prior EXCEPT !.entries[i] = entry, !.raised = i]
                 ELSE [prior EXCEPT !.entries[i] = entry, !.previous_hash = entry.hash]
  IN  loop[Len(es)]

\* the second loop of cleanup_old_entries: the entries afterwards, and the
\* position of the entry at which json.dumps raised (0 for none)
recalculate_hashes(es, key) ==
  LET loop[i \in 0..Len(es)] ==
        IF i = 0 THEN [entries |-> es, previous_hash |-> None, raised |-> 0]
        ELSE LET prior  == loop[i-1]
                 entry  == calculate_hash(es[i], prior.previous_hash)
                 signed == sign_entry(entry, key)
             IN  IF prior.raised > 0 THEN prior
                 ELSE IF ~json_serializable(es[i].data)
                 THEN [prior EXCEPT !.entries[i] = entry, !.raised = i]
                 ELSE [prior EXCEPT !.entries[i] = signed, !.previous_hash = signed.hash]
  IN  loop[Len(es)]

\* MythGraphLedger(public_key, private_key), no file under test and no runner
InitLedger ==
  /\ CodecIdle
  /\ IntegrationIdle
  /\ RunnerIdle
  /\ entries = << >>
  /\ ledger_hash = ZeroHash
  /\ public_key \in KeyPool
  /\ private_key \in KeyPool
  /\ clock = 0
  /\ verification_results = EmptyDict
  /\ modified = {}
  /\ calls = {}
  /\ last_call = "__init__"

\* datetime.utcnow() has moved on by an hour
Tick ==
  /\ clock < MaxTime
  /\ clock' = clock + 1
  /\ UNCHANGED << codec_vars, integration_vars, runner_vars, entries, ledger_hash,
                  public_key, private_key, verification_results, modified, calls,
                  last_call >>

\* await ledger.add_entry(entry_type, data)
AddEntry ==
  /\ Len(entries) < MaxEntries
  /\ \E pair \in EntryPool :
       LET entry_type    == pair[1]
           data          == pair[2]
           entry         == MythGraphEntry(entry_type, data, clock)
           previous_hash == IF entries # << >> THEN ledger_hash ELSE None
           hashed        == calculate_hash(entry, previous_hash)
       IN  IF json_serializable(data)
           THEN /\ entries' = Append(entries, sign_entry(hashed, private_key))
                /\ ledger_hash' = hashed.hash
           ELSE UNCHANGED << entries, ledger_hash >>
  /\ calls' = calls \cup {"add_entry"}
  /\ last_call' = "add_entry"
  /\ UNCHANGED << codec_vars, integration_vars, runner_vars, public_key, private_key,
                  clock, verification_results, modified >>

\* await ledger.cleanup_old_entries(max_age_hours)
CleanupOldEntries ==
  /\ \E max_age_hours \in MaxAgePool :
       LET kept        == kept_indices(entries, clock, max_age_hours)
           new_entries == [j \in 1..Len(kept) |-> entries[kept[j]]]
           rebuilt     == recalculate_hashes(new_entries, private_key)
       IN  /\ entries' = rebuilt.entries
           /\ ledger_hash' =
                IF rebuilt.raised > 0 THEN ledger_hash
                ELSE IF rebuilt.entries # << >>
                     THEN rebuilt.entries[Len(rebuilt.entries)].hash
                     ELSE ZeroHash
           /\ modified' =
                IF rebuilt.raised = 0 THEN {}
                ELSE {j \in rebuilt.raised..Len(kept) : kept[j] \in modified}
  /\ calls' = calls \cup {"cleanup_old_entries"}
  /\ last_call' = "cleanup_old_entries"
  /\ UNCHANGED << codec_vars, integration_vars, runner_vars, public_key, private_key,
                  clock, verification_results >>

\* await ledger.verify_ledger_integrity()
VerifyLedgerIntegrity ==
  /\ LET looped == verify_loop(entries, public_key)
     IN  /\ entries' = looped.entries
         /\ verification_results' = verification_dict(looped)
  /\ calls' = calls \cup {"verify_ledger_integrity"}
  /\ last_call' = "verify_ledger_integrity"
  /\ UNCHANGED << codec_vars, integration_vars, runner_vars, ledger_hash, public_key,
                  private_key, clock, modified >>

\* the holder of the ledger assigns another dict to the data of an entry
\* that was added, once per entry
ModifyData ==
  /\ \E k \in 1..Len(entries), data \in DataPool :
       /\ k \notin modified
       /\ data # entries[k].data
       /\ entries' = [entries EXCEPT ![k].data = data]
       /\ modified' = modified \cup {k}
  /\ calls' = calls \cup {"modify"}
  /\ last_call' = "modify"
  /\ UNCHANGED << codec_vars, integration_vars, runner_vars, ledger_hash, public_key,
                  private_key, clock, verification_results >>

\* a ledger that is only added to and cleaned up
NextLedgerChain ==
  \/ Tick
  \/ AddEntry
  \/ CleanupOldEntries

SpecLedgerChain == InitLedger /\ [][NextLedgerChain]_vars

\* a ledger that is added to, verified, and edited by its holder
NextLedger ==
  \/ AddEntry
  \/ VerifyLedgerIntegrity
  \/ ModifyData

SpecLedger == InitLedger /\ [][NextLedger]_vars

----------------------------------------------------------------------------
(* The phase runner of cleanup/test_artifacts/                             *)
(* run_comprehensive_compression_tests.py                                  *)
(*                                                                         *)
(* The time strings test_start_time and test_end_time and the captured     *)
(* stdout and stderr are left out of the dicts.                            *)

\* self.phases
phases ==
  << [name |-> "download_codebases",    required |-> TRUE],
     [name |-> "multi_language_test",   required |-> TRUE],
     [name |-> "real_integration_test", required |-> TRUE] >>

\* time.time() - start_time, in whole seconds
ExecutionTimes == {1, 2}

\* what running a script can come to: the script file is missing, the
\* process ends with return code 0 or with another one, or subprocess.run
\* raises
ScriptOutcomes == {"missing", "returncode_zero", "returncode_nonzero", "raised"}

\* the dict run_all_phases starts from
new_overall_results ==
  [total_phases         |-> Len(phases),
   phases_completed     |-> 0,
   phases_failed        |-> 0,
   overall_success      |-> TRUE,
   phase_results        |-> << >>,
   total_execution_time |-> 0]

\* the result recorded for the skipped download phase
skipped_result(phase) ==
  [success |-> TRUE, phase |-> phase.name, skipped |-> TRUE,
   reason |-> "Skipped by user request"]

\* run_test_phase: the dict returned when every log_action returns
run_test_phase(phase, outcome, execution_time) ==
  CASE outcome = "missing" ->
         [success |-> FALSE, error |-> "Script not found", phase |-> phase.name]
    [] outcome = "returncode_zero" ->
         [success |-> TRUE, phase |-> phase.name, execution_time |-> execution_time]
    [] outcome = "returncode_nonzero" ->
         [success |-> FALSE, phase |-> phase.name,
          error |-> "Script failed with return code",
          execution_time |-> execution_time]
    [] outcome = "raised" ->
         [success |-> FALSE, phase |-> phase.name, error |-> "str(e)"]

\* run_test_phase: the dict returned when the log_action call after the
\* script raised and the one of the except branch returned
logging_error_result(phase) ==
  [success |-> FALSE, phase |-> phase.name, error |-> "str(e)"]

\* overall_results['phase_results'][name] = result
set_result(results, name, result) ==
  [results EXCEPT !.phase_results = Append(@, [key |-> name, result |-> result])]

\* the body of the loop after run_test_phase returned, counting a failed
\* phase as completed
count_phase_always_completed(results, phase, result) ==
  LET recorded == set_result(results, phase.name, result)
  IN  IF result.success
      THEN [recorded EXCEPT !.phases_completed = @ + 1]
      ELSE IF phase.required
           THEN [recorded EXCEPT !.phases_completed = @ + 1, !.overall_success = FALSE]
           ELSE [recorded EXCEPT !.phases_completed = @ + 1]

\* the body of the loop after run_test_phase returned
count_phase(results, phase, result) ==
  LET recorded == set_result(results, phase.name, result)
  IN  IF result.success
      THEN [recorded EXCEPT !.phases_completed = @ + 1]
      ELSE IF phase.required
           THEN [recorded EXCEPT !.phases_failed = @ + 1, !.overall_success = FALSE]
           ELSE [recorded EXCEPT !.phases_failed = @ + 1]

\* ComprehensiveCompressionTestRunner(), no file under test and no ledger
InitRunner ==
  /\ CodecIdle
  /\ IntegrationIdle
  /\ LedgerIdle
  /\ skip_download = FALSE
  /\ phase_index = 0
  /\ overall_results = EmptyDict
  /\ total_execution_time = 0
  /\ phase_pc = "constructed"
  /\ executed = << >>

\* runner.run_all_phases(skip_download) up to the loop; the first
\* log_action returns or raises
RunAllPhases ==
  /\ phase_pc = "constructed"
  /\ \E skip \in BOOLEAN, logged \in BOOLEAN :
       /\ skip_download' = skip
       /\ IF logged
          THEN /\ overall_results' = new_overall_results
               /\ phase_pc' = "loop"
          ELSE /\ overall_results' = overall_results
               /\ phase_pc' = "raised"
  /\ UNCHANGED << codec_vars, integration_vars, ledger_vars, phase_index,
                  total_execution_time, executed >>

\* one iteration for the download phase when skip_download is set
SkipPhase ==
  /\ phase_pc = "loop"
  /\ phase_index < Len(phases)
  /\ LET phase == phases[phase_index + 1]
     IN  /\ skip_download /\ phase.name = "download_codebases"
         /\ \E logged \in BOOLEAN :
              IF logged
              THEN /\ overall_results' =
                        set_result(overall_results, phase.name, skipped_result(phase))
                   /\ phase_index' = phase_index + 1
                   /\ phase_pc' = "loop"
              ELSE /\ UNCHANGED << overall_results, phase_index >>
                   /\ phase_pc' = "raised"
  /\ UNCHANGED << codec_vars, integration_vars, ledger_vars, skip_download,
                  total_execution_time, executed >>

\* one iteration that calls run_test_phase
RunPhase ==
  /\ phase_pc = "loop"
  /\ phase_index < Len(phases)
  /\ LET phase == phases[phase_index + 1]
     IN  /\ ~(skip_download /\ phase.name = "download_codebases")
         /\ executed' = Append(executed, phase.name)
         /\ \E outcome \in ScriptOutcomes, execution_time \in ExecutionTimes,
               start_logged \in BOOLEAN, end_logged \in BOOLEAN,
               error_logged \in BOOLEAN, critical_logged \in BOOLEAN :
              LET returned == outcome = "missing"
                                \/ (outcome \in {"returncode_zero", "returncode_nonzero"}
                                      /\ end_logged)
                                \/ error_logged
                  result   == IF outcome = "missing"
                                   \/ (outcome # "raised" /\ end_logged)
                                   \/ (outcome = "raised" /\ error_logged)
                              THEN run_test_phase(phase, outcome, execution_time)
                              ELSE logging_error_result(phase)
                  counted  == count_phase(overall_results, phase, result)
              IN  IF ~start_logged \/ ~returned
                  THEN /\ phase_pc' = "raised"
                       /\ UNCHANGED << overall_results, phase_index, total_execution_time >>
                  ELSE /\ overall_results' = counted
                       /\ total_execution_time' =
                            IF result.success /\ "execution_time" \in DOMAIN result
                            THEN total_execution_time + result.execution_time
                            ELSE total_execution_time
                       /\ IF ~result.success /\ phase.required
                          THEN /\ phase_index' = phase_index
                               /\ phase_pc' = IF critical_logged THEN "break" ELSE "raised"
                          ELSE /\ phase_index' = phase_index + 1
                               /\ phase_pc' = "loop"
  /\ UNCHANGED << codec_vars, integration_vars, ledger_vars, skip_download >>

\* the loop is over: the sum is stored and the dict returned
ReturnResults ==
  /\ \/ phase_pc = "break"
     \/ phase_pc = "loop" /\ phase_index = Len(phases)
  /\ overall_results' =
       [overall_results EXCEPT !.total_execution_time = total_execution_time]
  /\ phase_pc' = "returned"
  /\ UNCHANGED << codec_vars, integration_vars, ledger_vars, skip_download, phase_index,
                  total_execution_time, executed >>

NextRunner ==
  \/ RunAllPhases
  \/ SkipPhase
  \/ RunPhase
  \/ ReturnResults

SpecRunner == InitRunner /\ [][NextRunner]_vars

----------------------------------------------------------------------------
(* Properties                                                              *)

IsReference(item) == item[1] \in {"P", "S"}

\* the table a Pattern or Semantic record refers to
table_of(d, item) == IF item[1] = "P" THEN d.patterns ELSE d.semantic_patterns

\* every Pattern/Semantic record's id is present in its table
ValidDocument(d) ==
  \A i \in 1..Len(d.data) :
    IsReference(d.data[i]) =>
      \E k \in 1..Len(table_of(d, d.data[i])) :
        table_of(d, d.data[i])[k].id = d.data[i][2]

\* simulate_compression was called on a non-empty list and its document,
\* as the caller passed it on, has been decoded
DecodedDocument == pc = "decoded" /\ nodes # << >>

\* C1: decoding a valid document returns as many records as
\* metadata.total_nodes says, which is the number of lines encoded
RoundTripCount ==
  (DecodedDocument /\ ValidDocument(doc)) =>
     /\ Len(reconstructed) = doc.metadata.total_nodes
     /\ doc.metadata.total_nodes = Len(nodes)

\* a valid document with all three kinds of record, one reference redirected
\* by the caller to another id of its table, has been decoded
RoundTripCountWitness ==
  /\ DecodedDocument
  /\ ValidDocument(doc)
  /\ tampered
  /\ {doc.data[i][1] : i \in 1..Len(doc.data)} = {"S", "P", "O"}
  /\ Len(reconstructed) = 3

\* C2: decoding a document with a reference to an id its table does not
\* hold ends in a DecodeError; it never returns a list
UnresolvedReferenceRaises ==
  (DecodedDocument /\ ~ValidDocument(doc)) => error = "DecodeError"

\* C3: the i-th decoded record carries the line_number of the i-th encoded
\* record, for every document
OrderPreserved ==
  DecodedDocument =>
    \A i \in 1..Len(doc.data) :
      /\ i <= Len(reconstructed)
      /\ reconstructed[i].line_number = item_line_number(doc.data[i])

\* simulate_compression returned its document for a non-empty list
ProducedDocument == pc \in {"encoded", "sized", "decoded"} /\ nodes # << >>

exact_count(ns, signature) ==
  Cardinality({i \in 1..Len(ns) : create_compact_signature(ns[i]) = signature})

semantic_count(ns, semantic_key) ==
  Cardinality({i \in 1..Len(ns) : create_semantic_signature(ns[i]) = semantic_key})

\* the first node of ns with this semantic signature
first_with_semantic(ns, semantic_key) ==
  ns[CHOOSE i \in 1..Len(ns) :
       /\ create_semantic_signature(ns[i]) = semantic_key
       /\ \A j \in 1..(i - 1) : create_semantic_signature(ns[j]) # semantic_key]

\* C4: a line is encoded as Semantic iff its semantic signature is a key of
\* the semantic table, else as Pattern iff its exact signature is a key of
\* the pattern table with count > 1, else as Literal carrying
\* compress_type(kind) and compress_value(text)
EncoderPriority ==
  ProducedDocument =>
    /\ Len(doc.data) = Len(nodes)
    /\ \A i \in 1..Len(nodes) :
         LET item == doc.data[i]
             in_semantic == HasKey(doc.semantic_patterns,
                                   create_semantic_signature(nodes[i]))
             in_pattern  ==
               /\ HasKey(doc.patterns, create_compact_signature(nodes[i]))
               /\ Entry(doc.patterns, create_compact_signature(nodes[i])).count > 1
         IN  /\ item[1] \in {"S", "P", "O"}
             /\ item[1] = "S" <=> in_semantic
             /\ item[1] = "P" <=> (~in_semantic /\ in_pattern)
             /\ item[1] = "O" =>
                  /\ item[2] = compress_type(nodes[i].type)
                  /\ item[3] = compress_value(nodes[i].value)

\* a document with a Semantic record for an exact duplicate, a Pattern
\* record and a Literal record whose text compress_value shortened
EncoderPriorityWitness ==
  /\ ProducedDocument
  /\ \E i \in 1..Len(nodes) :
       /\ doc.data[i][1] = "S"
       /\ HasKey(doc.patterns, create_compact_signature(nodes[i]))
  /\ \E i \in 1..Len(nodes) : doc.data[i][1] = "P"
  /\ \E i \in 1..Len(nodes) :
       doc.data[i][1] = "O" /\ doc.data[i][3] # nodes[i].value

\* C5: every pattern entry has count >= 2, every semantic entry has
\* count > 1 or a common-construct semantic_type, and every signature that
\* qualifies has its entry
DictionaryMinimality ==
  ProducedDocument =>
    /\ \A k \in 1..Len(doc.patterns) :
         /\ doc.patterns[k].count >= 2
         /\ doc.patterns[k].count = exact_count(nodes, doc.patterns[k].key)
    /\ \A k \in 1..Len(doc.semantic_patterns) :
         /\ \/ doc.semantic_patterns[k].count > 1
            \/ doc.semantic_patterns[k].semantic_type \in CommonConstructs
         /\ doc.semantic_patterns[k].count =
              semantic_count(nodes, doc.semantic_patterns[k].key)
    /\ \A i \in 1..Len(nodes) :
         LET signature    == create_compact_signature(nodes[i])
             semantic_key == create_semantic_signature(nodes[i])
         IN  /\ exact_count(nodes, signature) >= 2 => HasKey(doc.patterns, signature)
             /\ (\/ semantic_count(nodes, semantic_key) > 1
                 \/ detect_semantic_type(first_with_semantic(nodes, semantic_key))
                      \in CommonConstructs)
                  => HasKey(doc.semantic_patterns, semantic_key)

\* a document with a pattern entry, a semantic entry kept with count 1 for
\* its common construct, and a line whose signatures have no entry
DictionaryMinimalityWitness ==
  /\ ProducedDocument
  /\ doc.patterns # << >>
  /\ \E k \in 1..Len(doc.semantic_patterns) : doc.semantic_patterns[k].count = 1
  /\ \E i \in 1..Len(nodes) :
       /\ ~HasKey(doc.patterns, create_compact_signature(nodes[i]))
       /\ ~HasKey(doc.semantic_patterns, create_semantic_signature(nodes[i]))

template_of(d, item) ==
  LET table == table_of(d, item)
  IN  table[CHOOSE k \in 1..Len(table) : table[k].id = item[2]].template

\* C7: a decoded Semantic or Pattern record has the kind, text and language
\* of its entry's template and the record's line_number, so two lines that
\* resolve to one semantic entry decode to the same text
TemplateReconstruction ==
  (DecodedDocument /\ ValidDocument(doc)) =>
    /\ \A i \in 1..Len(doc.data) :
         IsReference(doc.data[i]) =>
           /\ i <= Len(reconstructed)
           /\ reconstructed[i].type = template_of(doc, doc.data[i]).type
           /\ reconstructed[i].value = template_of(doc, doc.data[i]).value
           /\ reconstructed[i].language = template_of(doc, doc.data[i]).language
           /\ reconstructed[i].line_number = doc.data[i][3]
    /\ \A i, j \in 1..Len(doc.data) :
         (doc.data[i][1] = "S" /\ doc.data[j][1] = "S" /\ doc.data[i][2] = doc.data[j][2])
           => (i <= Len(reconstructed) /\ j <= Len(reconstructed)
               /\ reconstructed[i].value = reconstructed[j].value)

\* two lines with different texts, encoded against the second of two
\* semantic entries, were decoded to the same text
TemplateReconstructionWitness ==
  /\ DecodedDocument
  /\ ~tampered
  /\ \E i, j \in 1..Len(nodes) :
       /\ nodes[i].value # nodes[j].value
       /\ doc.data[i] = << "S", 1, nodes[i].line_number >>
       /\ doc.data[j] = << "S", 1, nodes[j].line_number >>
       /\ reconstructed[i].value = reconstructed[j].value

\* simulate_compression returned for the empty list
EmptyInputReturned == pc \in {"encoded", "decoded"} /\ nodes = << >>

WellFormed(ns) ==
  /\ \A i \in 1..Len(ns) : ns[i].line_number >= 0
  /\ \A i, j \in 1..Len(ns) : i < j => ns[i].line_number < ns[j].line_number

\* a step of simulate_compression
SimulateCompressionStep == EarlyReturn \/ Phase1 \/ Phase2 \/ Phase3 \/ Phase4

DocumentKeys == {"patterns", "semantic_patterns", "data", "metadata"}

\* C9: on a well-formed list simulate_compression raises nothing, can take
\* its next step wherever it stands, and returns {} or a full document
EncodingTotal ==
  WellFormed(nodes) =>
    /\ error = "none"
    /\ pc # "raised"
    /\ pc \in {"called", "phase2", "phase3", "phase4"} => ENABLED SimulateCompressionStep
    /\ pc = "encoded" => (DOMAIN doc = {} \/ DOMAIN doc = DocumentKeys)

\* a list with a gap in its line numbers, one line of it encoded as a
\* Literal record, was encoded
EncodingTotalWitness ==
  /\ ProducedDocument
  /\ WellFormed(nodes)
  /\ \E i \in 1..Len(nodes) : nodes[i].line_number > i
  /\ \E i \in 1..Len(nodes) : doc.data[i][1] = "O"
  /\ error = "none"

\* C10: a list with a negative or a repeated line number ends the call in
\* an EncodeError, so simulate_compression returns a document only for a
\* well-formed list
MalformedInputRejected ==
  pc \in {"encoded", "decoded"} => WellFormed(nodes)

\* C11: the encoded record list has one record per input line, in input
\* order: data[i] carries the line_number of the i-th line
RecordPerLine ==
  ProducedDocument =>
    /\ Len(doc.data) = Len(nodes)
    /\ \A i \in 1..Len(nodes) :
         item_line_number(doc.data[i]) = nodes[i].line_number

\* a document of records of different kinds whose lines were separated by a
\* blank line
RecordPerLineWitness ==
  /\ ProducedDocument
  /\ Len(doc.data) > 1
  /\ \E i \in 1..(Len(nodes) - 1) : nodes[i + 1].line_number > nodes[i].line_number + 1
  /\ \E i, j \in 1..Len(doc.data) : doc.data[i][1] = "S" /\ doc.data[j][1] = "O"

\* C12: metadata.total_nodes is the number of records, pattern_count the
\* number of pattern entries, semantic_count the number of semantic entries
MetadataConsistent ==
  ProducedDocument =>
    /\ doc.metadata.total_nodes = Len(doc.data)
    /\ doc.metadata.pattern_count = Len(doc.patterns)
    /\ doc.metadata.semantic_count = Len(doc.semantic_patterns)

\* a document whose three counts are three different numbers
MetadataConsistentWitness ==
  /\ ProducedDocument
  /\ Len(doc.patterns) > 0
  /\ Len(doc.semantic_patterns) > Len(doc.patterns)
  /\ Len(doc.data) > Len(doc.semantic_patterns)

\* the caller has measured the document of a non-empty line sequence
SizedDocument == pc \in {"sized", "decoded"} /\ nodes # << >> /\ ~tampered

\* C13: the measured size of the document of a non-empty line sequence is
\* at least the fixed 50-byte metadata charge
CostLowerBound ==
  SizedDocument => compressed_size >= 50

\* a measured document of one Semantic record and an empty pattern table:
\* the record's six bytes are all that is charged on top of the metadata
CostLowerBoundWitness ==
  /\ SizedDocument
  /\ Len(doc.data) = 1
  /\ doc.data[1][1] = "S"
  /\ doc.patterns = << >>
  /\ compressed_size = 50 + 6

\* the document of the scenario file has been produced
ScenarioDocument ==
  /\ content = join_lines(ScenarioLines)
  /\ language = DemoLanguage
  /\ ProducedDocument

\* "line:let x = 1;:demo"
ScenarioStatementSignature ==
  <<"l", "i", "n", "e", ":", "l", "e", "t", " ", "x", " ", "=", " ", "1", ";", ":", "d", "e", "m", "o">>

\* "comment:demo"
ScenarioCommentKey == <<"c", "o", "m", "m", "e", "n", "t", ":", "d", "e", "m", "o">>

\* C14: for the lines "let x = 1;", "let x = 1;", "// note", "let y = 2;",
\* "// note" under language "demo", the pattern table has an entry for the
\* exact signature of "let x = 1;" with count 2, the semantic table has the
\* comment entry with count 2, and both "// note" lines are Semantic
\* records that refer to the comment entry, not Pattern records
ScenarioA ==
  ScenarioDocument =>
    /\ HasKey(doc.patterns, ScenarioStatementSignature)
    /\ Entry(doc.patterns, ScenarioStatementSignature).count = 2
    /\ HasKey(doc.semantic_patterns, ScenarioCommentKey)
    /\ Entry(doc.semantic_patterns, ScenarioCommentKey).count = 2
    /\ \A i \in {3, 5} :
         doc.data[i] = << "S", Entry(doc.semantic_patterns, ScenarioCommentKey).id, i >>

\* the scenario's document, decoded: the exact signature of "// note" is in
\* the pattern table too, so a Pattern record was possible for those lines
ScenarioAWitness ==
  /\ ScenarioDocument
  /\ pc = "decoded"
  /\ Len(doc.data) = Len(ScenarioLines)
  /\ \E k \in 1..Len(doc.patterns) : doc.patterns[k].template.value = ScenarioLines[3]

\* C15: a Literal record decodes to a line whose kind and text are the
\* stored kind code and stored text, which are compress_type(kind) and
\* compress_value(text) of the encoded line, not inverted; its line_number
\* is the record's and its language is "unknown" whatever the input
\* language was
LiteralDecoding ==
  (DecodedDocument /\ ValidDocument(doc)) =>
    \A i \in 1..Len(doc.data) :
      doc.data[i][1] = "O" =>
        /\ reconstructed[i].type = doc.data[i][2]
        /\ reconstructed[i].type = compress_type(nodes[i].type)
        /\ reconstructed[i].value = doc.data[i][3]
        /\ reconstructed[i].value = compress_value(nodes[i].value)
        /\ reconstructed[i].line_number = doc.data[i][4]
        /\ reconstructed[i].language = <<"u", "n", "k", "n", "o", "w", "n">>

\* a decoded Literal record whose kind and text both differ from the
\* encoded line's, as does its language
LiteralDecodingWitness ==
  /\ DecodedDocument
  /\ ValidDocument(doc)
  /\ \E i \in 1..Len(doc.data) :
       /\ doc.data[i][1] = "O"
       /\ reconstructed[i].type # nodes[i].type
       /\ reconstructed[i].value # nodes[i].value
       /\ reconstructed[i].language # nodes[i].language

\* the index in ns of the first line with this exact signature
first_exact_index(ns, signature) ==
  CHOOSE i \in 1..Len(ns) :
    /\ create_compact_signature(ns[i]) = signature
    /\ \A j \in 1..(i - 1) : create_compact_signature(ns[j]) # signature

\* the index in ns of the first line with this semantic signature
first_semantic_index(ns, semantic_key) ==
  CHOOSE i \in 1..Len(ns) :
    /\ create_semantic_signature(ns[i]) = semantic_key
    /\ \A j \in 1..(i - 1) : create_semantic_signature(ns[j]) # semantic_key

table_ids(table) == { table[k].id : k \in 1..Len(table) }

\* C16: in each table of a document with n entries the ids are exactly
\* 0..n-1, one per entry, and id(a) < id(b) iff the first line with
\* signature a comes before the first line with signature b
DenseFirstSeenIds ==
  ProducedDocument =>
    /\ table_ids(doc.patterns) = 0..(Len(doc.patterns) - 1)
    /\ table_ids(doc.semantic_patterns) = 0..(Len(doc.semantic_patterns) - 1)
    /\ \A a, b \in 1..Len(doc.patterns) :
         (doc.patterns[a].id < doc.patterns[b].id)
           <=> (first_exact_index(nodes, doc.patterns[a].key)
                  < first_exact_index(nodes, doc.patterns[b].key))
    /\ \A a, b \in 1..Len(doc.semantic_patterns) :
         (doc.semantic_patterns[a].id < doc.semantic_patterns[b].id)
           <=> (first_semantic_index(nodes, doc.semantic_patterns[a].key)
                  < first_semantic_index(nodes, doc.semantic_patterns[b].key))

\* a document with two semantic entries, made from lines the first of which
\* has a semantic signature that got no entry
DenseFirstSeenIdsWitness ==
  /\ ProducedDocument
  /\ Len(doc.semantic_patterns) > 1
  /\ ~HasKey(doc.semantic_patterns, create_semantic_signature(nodes[1]))

\* the kind, compressed text and language of a line, as a template holds them
threaded_template(node) ==
  [type |-> node.type, value |-> compress_value(node.value), language |-> node.language]

template_core(template) ==
  [type |-> template.type, value |-> template.value, language |-> template.language]

\* C17: the count of every table entry is the number of input lines with
\* that signature, and its template comes from the first such line only:
\* that line's kind and language, and compress_value of that line's text
CountAndTemplate ==
  ProducedDocument =>
    /\ \A table \in {patterns, doc.patterns} : \A k \in 1..Len(table) :
         /\ table[k].count = exact_count(nodes, table[k].key)
         /\ template_core(table[k].template)
              = threaded_template(nodes[first_exact_index(nodes, table[k].key)])
    /\ \A table \in {semantic_patterns, doc.semantic_patterns} : \A k \in 1..Len(table) :
         /\ table[k].count = semantic_count(nodes, table[k].key)
         /\ template_core(table[k].template)
              = threaded_template(nodes[first_semantic_index(nodes, table[k].key)])

\* a semantic entry counting two lines or more, one of which has a text
\* other than the template's
CountAndTemplateWitness ==
  /\ ProducedDocument
  /\ \E k \in 1..Len(doc.semantic_patterns) : \E i \in 1..Len(nodes) :
       /\ doc.semantic_patterns[k].count > 1
       /\ create_semantic_signature(nodes[i]) = doc.semantic_patterns[k].key
       /\ compress_value(nodes[i].value) # doc.semantic_patterns[k].template.value

\* two characters that are the same up to letter case
same_letter(c, d) == c = d \/ lower_char(c) = lower_char(d)

\* two line records of the same kind and language whose texts differ, and
\* differ in letter case only
differ_only_in_case(a, b) ==
  /\ a.type = b.type
  /\ a.language = b.language
  /\ Len(a.value) = Len(b.value)
  /\ a.value # b.value
  /\ \A k \in 1..Len(a.value) : same_letter(a.value[k], b.value[k])

\* the first n characters of a text
first_chars(text, n) == SubSeq(text, 1, IF Len(text) < n THEN Len(text) ELSE n)

\* C19 as stated: two line records that differ only in the letter case of
\* their text have the same exact signature and the same semantic signature
CaseInsensitiveSignatures ==
  \A i, j \in 1..Len(nodes) :
    differ_only_in_case(nodes[i], nodes[j]) =>
      /\ create_compact_signature(nodes[i]) = create_compact_signature(nodes[j])
      /\ create_semantic_signature(nodes[i]) = create_semantic_signature(nodes[j])

\* C19, amended: two line records that differ only in the letter case of
\* their text have the same semantic signature; their exact signatures are
\* the same iff the first 30 characters of the two texts are the same, case
\* included
CaseFoldedSemanticOnly ==
  \A i, j \in 1..Len(nodes) :
    differ_only_in_case(nodes[i], nodes[j]) =>
      /\ create_semantic_signature(nodes[i]) = create_semantic_signature(nodes[j])
      /\ (create_compact_signature(nodes[i]) = create_compact_signature(nodes[j]))
           <=> (first_chars(nodes[i].value, 30) = first_chars(nodes[j].value, 30))

\* Phase 1 has counted two lines that differ in letter case within their
\* first 30 characters: one semantic signature, two exact signatures
CaseFoldedSemanticOnlyWitness ==
  /\ pc = "phase2"
  /\ \E i, j \in 1..Len(nodes) :
       /\ differ_only_in_case(nodes[i], nodes[j])
       /\ Len(semantic_patterns) = 1
       /\ semantic_patterns[1].count = 2
       /\ Len(patterns) = 2

\* the semanticType a category collapses into
collapsed_type(category) ==
  CASE category = <<"f", "u", "n", "c", "t", "i", "o", "n", "_", "d", "e", "c", "l">> -> <<"f", "u", "n", "c", "t", "i", "o", "n">>
    [] category = <<"t", "y", "p", "e", "_", "d", "e", "c", "l">> -> <<"t", "y", "p", "e">>
    [] category = <<"c", "o", "n", "t", "r", "o", "l", "_", "f", "l", "o", "w">> -> <<"c", "o", "n", "t", "r", "o", "l">>
    [] category = <<"c", "o", "m", "m", "e", "n", "t">> -> <<"c", "o", "m", "m", "e", "n", "t">>
    [] category = <<"v", "a", "r", "i", "a", "b", "l", "e", "_", "d", "e", "c", "l">> -> <<"v", "a", "r", "i", "a", "b", "l", "e">>
    [] OTHER -> <<"s", "t", "a", "t", "e", "m", "e", "n", "t">>

\* C18: for every line detect_semantic_type returns the semanticType its
\* category collapses into: function for function_decl, type for type_decl,
\* control for control_flow, comment for comment, variable for
\* variable_decl, statement for every other category
SemanticTypeAgrees ==
  \A i \in 1..Len(nodes) :
    detect_semantic_type(nodes[i]) = collapsed_type(semantic_category(nodes[i]))

\* the rules of the semantic category in their fixed order
CategoryRules ==
  << [keywords |-> FunctionKeywords, category |-> <<"f", "u", "n", "c", "t", "i", "o", "n", "_", "d", "e", "c", "l">>],
     [keywords |-> TypeKeywords, category |-> <<"t", "y", "p", "e", "_", "d", "e", "c", "l">>],
     [keywords |-> ControlKeywords, category |-> <<"c", "o", "n", "t", "r", "o", "l", "_", "f", "l", "o", "w">>],
     [keywords |-> LoopKeywords, category |-> <<"l", "o", "o", "p", "_", "c", "o", "n", "s", "t", "r", "u", "c", "t">>],
     [keywords |-> FlowKeywords, category |-> <<"f", "l", "o", "w", "_", "c", "o", "n", "t", "r", "o", "l">>],
     [keywords |-> ImportKeywords, category |-> <<"i", "m", "p", "o", "r", "t", "_", "s", "t", "a", "t", "e", "m", "e", "n", "t">>],
     [keywords |-> CommentKeywords, category |-> <<"c", "o", "m", "m", "e", "n", "t">>],
     [keywords |-> VariableKeywords, category |-> <<"v", "a", "r", "i", "a", "b", "l", "e", "_", "d", "e", "c", "l">>] >>

OtherCategory == <<"o", "t", "h", "e", "r">>

\* the rules with a keyword in the lower-cased trimmed text
matching_rules(text) ==
  { r \in 1..Len(CategoryRules) :
      \E k \in 1..Len(CategoryRules[r].keywords) :
        contains(strip(lower(text)), CategoryRules[r].keywords[k]) }

\* the category of the earliest rule with a keyword in the text
first_rule_category_body(text) ==
  LET matching == matching_rules(text)
  IN  IF matching = {} THEN OtherCategory
      ELSE CategoryRules[CHOOSE r \in matching : \A q \in matching : r <= q].category

\* first_rule_category_body on the pool's values, computed once
FirstRulePool == { << v, first_rule_category_body(v) >> : v \in PoolValues }

first_rule_category(text) ==
  IF text \in PoolValues
  THEN (CHOOSE p \in FirstRulePool : p[1] = text)[2]
  ELSE first_rule_category_body(text)

\* C20: the semantic category of a line is that of the earliest rule, in
\* the order function_decl, type_decl, control_flow, loop_construct,
\* flow_control, import_statement, comment, variable_decl, with a keyword
\* in the lower-cased text, and other when no rule has one; the semantic
\* signature is category + ":" + language
FirstMatchingRule ==
  \A i \in 1..Len(nodes) :
    create_semantic_signature(nodes[i])
      = first_rule_category(nodes[i].value) \o <<":">> \o nodes[i].language

\* Phase 1 has just classified a line that has a keyword of the comment rule
\* and one of an earlier rule
FirstMatchingRuleWitness ==
  /\ pc = "phase2"
  /\ \E i \in 1..Len(nodes) :
       LET matching == matching_rules(nodes[i].value)
       IN  /\ \E r, q \in matching :
                r < q /\ CategoryRules[q].keywords = CommentKeywords
           /\ HasKey(semantic_patterns, create_semantic_signature(nodes[i]))
           /\ first_rule_category(nodes[i].value) # OtherCategory

\* the positions of the newline characters of a text
newlines(text) == { i \in 1..Len(text) : text[i] = "\n" }

\* the k-th line of a text, counted from 1: what stands between the
\* (k-1)-th and the k-th newline
line_at(text, k) ==
  LET before == { p \in newlines(text) : Cardinality({ q \in newlines(text) : q <= p }) = k - 1 }
      after  == { p \in newlines(text) : Cardinality({ q \in newlines(text) : q <= p }) = k }
      first  == IF before = {} THEN 1 ELSE (CHOOSE p \in before : TRUE) + 1
      last   == IF after = {} THEN Len(text) ELSE (CHOOSE p \in after : TRUE) - 1
  IN  SubSeq(text, first, last)

\* the numbers of the lines of a text with a character that is not white space
kept_lines(text) ==
  { k \in 1..(Cardinality(newlines(text)) + 1) :
      \E i \in 1..Len(line_at(text, k)) : line_at(text, k)[i] \notin Whitespace }

\* v is the line without the white space at its two ends
is_trimmed(v, line) ==
  /\ v # << >>
  /\ v[1] \notin Whitespace
  /\ v[Len(v)] \notin Whitespace
  /\ \E a \in 0..(Len(line) - Len(v)) :
       /\ SubSeq(line, a + 1, a + Len(v)) = v
       /\ \A i \in 1..a : line[i] \in Whitespace
       /\ \A i \in (a + Len(v) + 1)..Len(line) : line[i] \in Whitespace

\* ns holds the lines of text that are not empty after trimming, in
\* order, each under its 1-based position in the text and trimmed
line_model(ns, text) ==
  /\ Len(ns) = Cardinality(kept_lines(text))
  /\ \A i \in 1..Len(ns) :
       /\ ns[i].line_number \in kept_lines(text)
       /\ is_trimmed(ns[i].value, line_at(text, ns[i].line_number))
  /\ \A i, j \in 1..Len(ns) : i < j => ns[i].line_number < ns[j].line_number
  /\ (text = << >> => ns = << >>)

\* C21: create_test_ast and create_realistic_ast return exactly the lines
\* that are not empty after trimming, in the order of the text, each with
\* line_number its 1-based position in the text (unique, strictly
\* increasing, with gaps for dropped lines) and with the trimmed line as
\* text; the empty text gives the empty list
LineModelBuilt ==
  /\ pc = "called" => line_model(nodes, content)
  /\ pc = "built" => line_model(ast_nodes, content)

\* create_test_ast has returned two lines with a dropped line between them,
\* one of them shorter than the line it was trimmed from
LineModelBuiltWitness ==
  /\ pc = "called"
  /\ Len(nodes) = 2
  /\ nodes[2].line_number > nodes[1].line_number + 1
  /\ nodes[1].value # line_at(content, nodes[1].line_number)

\* C22: compress_value returns the text itself or a strictly shorter text,
\* never another text of the same or a greater length, and the empty text
\* for the empty text
NeverLengthens ==
  /\ compress_value(<< >>) = << >>
  /\ \A i \in 1..Len(nodes) :
       \/ compress_value(nodes[i].value) = nodes[i].value
       \/ Len(compress_value(nodes[i].value)) < Len(nodes[i].value)

\* Phase 1 has stored as a template the text of a line that the replacements
\* turn into another text of the same length
NeverLengthensWitness ==
  /\ pc = "phase2"
  /\ \E i \in 1..Len(nodes) :
       LET transformed == remove_prefixes(apply_common_patterns(nodes[i].value, 1), 1)
       IN  /\ transformed # nodes[i].value
           /\ Len(transformed) = Len(nodes[i].value)
           /\ \E k \in 1..Len(patterns) : patterns[k].template.value = nodes[i].value

\* the sum of a sequence of numbers
RECURSIVE sum_of(_)
sum_of(s) == IF s = << >> THEN 0 ELSE Head(s) + sum_of(Tail(s))

\* the byte charge of one pattern-table entry, as the size model states it
entry_charge(entry) ==
  Len(entry.key) + Len(entry.template.type) + Len(entry.template.value)
    + Len(entry.template.language) + 8

\* the byte charge of one record, as the size model states it
record_charge(item) ==
  IF item[1] = "O" THEN 1 + Len(item[2]) + Len(item[3]) + 4 ELSE 6

\* the document with every id and every line number replaced by zero
without_ids_and_lines(cd) ==
  [cd EXCEPT
     !.patterns = [k \in 1..Len(cd.patterns) |-> [cd.patterns[k] EXCEPT !.id = 0]],
     !.semantic_patterns =
        [k \in 1..Len(cd.semantic_patterns) |-> [cd.semantic_patterns[k] EXCEPT !.id = 0]],
     !.data = [k \in 1..Len(cd.data) |->
                 IF cd.data[k][1] = "O"
                 THEN << "O", cd.data[k][2], cd.data[k][3], 0 >>
                 ELSE << cd.data[k][1], 0, 0 >>]]

\* C23: the measured size of a non-empty document is 50, plus for every
\* pattern-table entry the lengths of its signature and of its template's
\* kind, text and language plus 8, plus 6 for every Pattern or Semantic
\* record and 1 + kind code + text + 4 for every Literal record; the
\* semantic table adds nothing, and ids and line numbers do not enter
SizeModel ==
  SizedDocument =>
    /\ \A k \in 1..Len(doc.data) : doc.data[k][1] \in {"P", "S", "O"}
    /\ compressed_size =
         50 + sum_of([k \in 1..Len(doc.patterns) |-> entry_charge(doc.patterns[k])])
            + sum_of([k \in 1..Len(doc.data) |-> record_charge(doc.data[k])])
    /\ get_compressed_size(without_ids_and_lines(doc)) = compressed_size

\* a measured document with a pattern-table entry, a semantic-table entry, a
\* Semantic record and a Literal record on a line other than the first
SizeModelWitness ==
  /\ SizedDocument
  /\ doc.patterns # << >>
  /\ doc.semantic_patterns # << >>
  /\ \E k \in 1..Len(doc.data) : doc.data[k][1] = "S" /\ doc.data[k][3] > 1
  /\ \E k \in 1..Len(doc.data) : doc.data[k][1] = "O" /\ doc.data[k][3] # << >>
  /\ compressed_size > 50 + 6 * Len(doc.data)

\* C24: the record-emitting pass leaves the two tables (ids, counts,
\* templates), the accumulators they were built from and the input line
\* records as they were at the end of Phase 2, and decoding leaves the
\* document it is given (tables and record list) and the line records as
\* they were
EncodingAndDecodingFrame ==
  [][/\ pc = "phase3" =>
          /\ pattern_dict' = pattern_dict
          /\ semantic_dict' = semantic_dict
          /\ patterns' = patterns
          /\ semantic_patterns' = semantic_patterns
          /\ nodes' = nodes
     /\ pc = "sized" =>
          /\ doc' = doc
          /\ nodes' = nodes]_vars

\* a decoded document whose two tables are not empty and are still the
\* tables Phase 2 built, every semantic entry with the count of its lines
EncodingAndDecodingFrameWitness ==
  /\ pc = "decoded"
  /\ reconstructed # << >>
  /\ doc.patterns # << >>
  /\ doc.patterns = pattern_dict
  /\ doc.patterns = build_pattern_dict(patterns)
  /\ doc.semantic_patterns # << >>
  /\ doc.semantic_patterns = semantic_dict
  /\ \A k \in 1..Len(semantic_dict) :
       semantic_dict[k].count = semantic_count(nodes, semantic_dict[k].key)
  /\ \E k \in 1..Len(doc.data) : doc.data[k][1] = "S"

\* C25: in a produced document the record of a line is a Pattern or Literal
\* record only if no other line has the line's semantic signature; two lines
\* of the same text and language are both Semantic records, and no two
\* Pattern or Literal records belong to lines with one semantic signature
NonSemanticOnlyForUnique ==
  ProducedDocument =>
    /\ Len(doc.data) = Len(nodes)
    /\ \A i \in 1..Len(nodes) :
         doc.data[i][1] \in {"P", "O"} =>
           semantic_count(nodes, create_semantic_signature(nodes[i])) = 1
    /\ \A i, j \in 1..Len(nodes) :
         (i # j /\ nodes[i].value = nodes[j].value /\ nodes[i].language = nodes[j].language)
           => (doc.data[i][1] = "S" /\ doc.data[j][1] = "S")
    /\ \A i, j \in 1..Len(nodes) :
         (i # j /\ doc.data[i][1] # "S" /\ doc.data[j][1] # "S")
           => create_semantic_signature(nodes[i]) # create_semantic_signature(nodes[j])

\* a produced document of two lines of the same text, both Semantic records
\* though their signature is no common construct, next to a Literal record
NonSemanticOnlyForUniqueWitness ==
  /\ ProducedDocument
  /\ Len(doc.data) = Len(nodes)
  /\ \E i, j, k \in 1..Len(nodes) :
       /\ i # j
       /\ nodes[i].value = nodes[j].value
       /\ doc.data[i][1] = "S"
       /\ doc.data[j][1] = "S"
       /\ ~is_common_construct(Entry(semantic_patterns, create_semantic_signature(nodes[i])).template)
       /\ doc.data[k][1] = "O"

\* the number of nodes of ns that have the pattern signature of ns[i]
signature_count(ns, i) ==
  Cardinality({j \in 1..Len(ns) :
                 create_pattern_signature(ns[j]) = create_pattern_signature(ns[i])})

\* C26: wrapping and unwrapping the nodes of create_realistic_ast gives as
\* many nodes, the i-th equal to the i-th built node in type, value,
\* line_number, language, children and metadata; a node is wrapped as a
\* pattern_reference exactly if its pattern signature occurs more than once
ReferenceCodecLossless ==
  /\ pc \in {"wrapped", "unwrapped"} =>
       /\ Len(compressed_result) = Len(ast_nodes)
       /\ \A i \in 1..Len(ast_nodes) :
            (compressed_result[i].type = PatternReferenceType)
              <=> (signature_count(ast_nodes, i) > 1)
  /\ pc = "unwrapped" =>
       /\ Len(reconstructed_nodes) = Len(ast_nodes)
       /\ \A i \in 1..Len(ast_nodes) :
            /\ reconstructed_nodes[i].type = ast_nodes[i].type
            /\ reconstructed_nodes[i].value = ast_nodes[i].value
            /\ reconstructed_nodes[i].line_number = ast_nodes[i].line_number
            /\ reconstructed_nodes[i].language = ast_nodes[i].language
            /\ reconstructed_nodes[i].children = ast_nodes[i].children
            /\ reconstructed_nodes[i].metadata = ast_nodes[i].metadata

\* two lines that differ after their fiftieth character share a pattern
\* signature: both are wrapped, and both come back with their own text
ReferenceCodecLosslessWitness ==
  /\ pc = "unwrapped"
  /\ \E i, j \in 1..Len(ast_nodes) :
       /\ ast_nodes[i].value # ast_nodes[j].value
       /\ create_pattern_signature(ast_nodes[i]) = create_pattern_signature(ast_nodes[j])
       /\ compressed_result[i].type = PatternReferenceType
       /\ compressed_result[j].type = PatternReferenceType
       /\ compressed_result[i].pattern_count = 2
       /\ reconstructed_nodes[i].value = ast_nodes[i].value
       /\ reconstructed_nodes[j].value = ast_nodes[j].value

\* C27: after any calls of add_entry and cleanup_old_entries the first
\* entry has no previous hash, every later entry has the hash of the entry
\* before it as its previous hash, every entry's hash is the hash of its
\* entry_type, data, timestamp and previous_hash, every signature is the
\* signature of the entry's hash under private_key, and ledger_hash is the
\* last entry's hash, or the all-zero hash for the empty ledger
HashChain ==
  /\ entries # << >> => entries[1].previous_hash = None
  /\ \A i \in 2..Len(entries) : entries[i].previous_hash = entries[i-1].hash
  /\ \A i \in 1..Len(entries) :
       /\ entries[i].hash =
            sha256_of_entry(entries[i].entry_type, entries[i].data,
                            entries[i].timestamp, entries[i].previous_hash)
       /\ entries[i].signature =
            sha256_of_signature_data(entries[i].hash, private_key)
  /\ ledger_hash = IF entries = << >> THEN ZeroHash
                   ELSE entries[Len(entries)].hash

\* a ledger whose oldest entry a cleanup has removed: the two entries left
\* are younger than the clock's first hour and chained anew
HashChainWitness ==
  /\ last_call = "cleanup_old_entries"
  /\ Len(entries) = 2
  /\ \A i \in 1..Len(entries) : entries[i].timestamp > 0
  /\ entries[1].previous_hash = None
  /\ entries[2].previous_hash = entries[1].hash
  /\ ledger_hash = entries[2].hash

\* the step is a call of verify_ledger_integrity on a ledger on which only
\* the operations of allowed have been called before
VerifyAfterOnly(allowed) ==
  /\ calls \subseteq allowed
  /\ last_call' = "verify_ledger_integrity"

\* the integrity score is the number n
score_is(results, n) ==
  results.integrity_score[1] = n * results.integrity_score[2]

\* every entry counted as verified, none as failed
AllVerified(results) ==
  /\ results.verified_entries = results.total_entries
  /\ results.failed_entries = 0
  /\ score_is(results, 1)

\* C28: verify_ledger_integrity on a non-empty ledger built by add_entry
\* alone reports verified_entries = total_entries, failed_entries = 0 and
\* integrity_score 1 exactly if public_key = private_key, and then leaves
\* every entry (hash, previous_hash and signature included) and ledger_hash
\* as they were; on an empty ledger it reports integrity_score 0
VerifiesUntampered ==
  [][VerifyAfterOnly({"add_entry"}) =>
       /\ verification_results'.total_entries = Len(entries)
       /\ entries # << >> =>
            (AllVerified(verification_results') <=> public_key = private_key)
       /\ (entries # << >> /\ public_key = private_key) =>
            /\ entries' = entries
            /\ ledger_hash' = ledger_hash
       /\ entries = << >> => score_is(verification_results', 0)]_vars

\* a ledger of three added entries verified under equal keys: three
\* verified entries, no error, and the chain still ends in ledger_hash
VerifiesUntamperedWitness ==
  /\ last_call = "verify_ledger_integrity"
  /\ calls = {"add_entry", "verify_ledger_integrity"}
  /\ public_key = private_key
  /\ Len(entries) = 3
  /\ verification_results.verified_entries = 3
  /\ verification_results.errors = << >>
  /\ verification_results.integrity_score = << 3, 3 >>
  /\ entries[3].previous_hash = entries[2].hash
  /\ ledger_hash = entries[3].hash

\* the step is a call of verify_ledger_integrity on a ledger built by
\* add_entry under equal keys, in which the data of one entry was changed
VerifyAfterOneChange ==
  /\ VerifyAfterOnly({"add_entry", "modify"})
  /\ public_key = private_key
  /\ Cardinality(modified) = 1

\* the one entry whose data was changed
changed_entry == CHOOSE k \in modified : TRUE

\* the report for a ledger of n entries whose entries k..n carry the errors
\* of first_error (entry k) and of "Signature verification failed" (the rest)
cascade_report(n, k, first_error) ==
  [total_entries    |-> n,
   verified_entries |-> k - 1,
   failed_entries   |-> n - k + 1,
   errors           |-> [j \in 1..(n - k + 1) |->
                           [entry_index |-> k + j - 2,
                            error |-> IF j = 1 THEN first_error
                                      ELSE "Signature verification failed"]],
   integrity_score  |-> << k - 1, n >>]

\* C29 as stated: after the data of exactly one entry k of a ledger built
\* by add_entry under equal keys was changed, verify_ledger_integrity
\* reports the entries before k verified and every entry from k on failed,
\* each with the error "Signature verification failed"
TamperCascadeSignatureOnly ==
  [][VerifyAfterOneChange =>
       verification_results' =
         cascade_report(Len(entries), changed_entry, "Signature verification failed")]_vars

\* C29: after the data of exactly one entry k of a ledger built by
\* add_entry under equal keys was changed, verify_ledger_integrity reports
\* the entries before k verified and every entry from k on failed; the
\* error of entry k is "Signature verification failed" if json.dumps can
\* write its new data and the verification exception of the TypeError if it
\* cannot, the error of every later entry is "Signature verification
\* failed", and neither "Hash mismatch" nor "Previous hash mismatch" is
\* reported
TamperCascade ==
  [][VerifyAfterOneChange =>
       verification_results' =
         cascade_report(Len(entries), changed_entry,
                        IF json_serializable(entries[changed_entry].data)
                        THEN "Signature verification failed"
                        ELSE VerificationException)]_vars

\* a verified ledger of three entries of which the second was given data
\* that json.dumps cannot write: one entry verified, the second failed with
\* the verification exception, the third with the signature error, and the
\* third entry's previous hash is now the first entry's hash
TamperCascadeWitness ==
  /\ last_call = "verify_ledger_integrity"
  /\ calls = {"add_entry", "modify", "verify_ledger_integrity"}
  /\ public_key = private_key
  /\ modified = {2}
  /\ Len(entries) = 3
  /\ ~json_serializable(entries[2].data)
  /\ verification_results.verified_entries = 1
  /\ verification_results.failed_entries = 2
  /\ verification_results.errors[1].error = VerificationException
  /\ verification_results.errors[2].error = "Signature verification failed"
  /\ entries[3].previous_hash = entries[1].hash

\* run_all_phases has made its dict
ResultsStarted == DOMAIN overall_results # {}

\* the recorded result of position j is a failure of a required phase
required_failed(j) ==
  /\ ~overall_results.phase_results[j].result.success
  /\ phases[j].required

\* the recorded result of position j is that of a skipped phase
is_skipped(j) == "skipped" \in DOMAIN overall_results.phase_results[j].result

\* C30: the phases are run in list order and the run stops at the first
\* failed required phase, after which no phase is run or given a result;
\* overall_success is False exactly if a required phase that was run
\* failed; a skipped download phase is recorded as a successful skipped
\* result and counted neither as completed nor as failed, so that
\* phases_completed + phases_failed <= total_phases and phases_failed <= 1
PhaseOrdering ==
  ResultsStarted =>
    LET phase_results == overall_results.phase_results
        recorded      == 1..Len(phase_results)
        skipped       == IF skip_download /\ phase_results # << >> THEN 1 ELSE 0
    IN  /\ Len(phase_results) <= Len(phases)
        /\ \A j \in recorded : phase_results[j].key = phases[j].name
        /\ \A j \in 1..Len(executed) : executed[j] = phases[j + skipped].name
        /\ Len(executed) + skipped \in
             IF phase_pc = "raised"
             THEN {Len(phase_results), Len(phase_results) + 1}
             ELSE {Len(phase_results)}
        /\ \A j \in recorded : required_failed(j) => j = Len(phase_results)
        /\ \A j \in recorded : required_failed(j) => Len(executed) + skipped = j
        /\ phase_pc = "returned" =>
             \/ Len(phase_results) = Len(phases)
             \/ required_failed(Len(phase_results))
        /\ overall_results.overall_success = ~(\E j \in recorded : required_failed(j))
        /\ \A j \in recorded :
             is_skipped(j) <=> (skip_download /\ phases[j].name = "download_codebases")
        /\ \A j \in recorded : is_skipped(j) => phase_results[j].result.success
        /\ overall_results.phases_completed =
             Cardinality({j \in recorded : phase_results[j].result.success /\ ~is_skipped(j)})
        /\ overall_results.phases_failed =
             Cardinality({j \in recorded : ~phase_results[j].result.success})
        /\ overall_results.phases_completed + overall_results.phases_failed
             <= overall_results.total_phases
        /\ overall_results.phases_failed <= 1

\* a returned run with the download skipped whose second phase failed: the
\* third phase has no result, nothing is counted as completed, and the only
\* phase run is the second
PhaseOrderingWitness ==
  /\ phase_pc = "returned"
  /\ skip_download
  /\ Len(overall_results.phase_results) = 2
  /\ is_skipped(1)
  /\ required_failed(2)
  /\ executed = << "multi_language_test" >>
  /\ overall_results.phases_completed = 0
  /\ overall_results.phases_failed = 1
  /\ ~overall_results.overall_success

====
